---- MODULE Spec2Model ----
(***************************************************************************)
(* Model of the serial command multiplexer (qwe/comm/serial_interface.py): *)
(* the SerialInterface process with its send / receive / exec loops, the   *)
(* fake-hardware substitutes, the SerialCommand facade used by callers,    *)
(* and the motor-controller firmware as the environment on the other end   *)
(* of the serial line.                                                     *)
(***************************************************************************)
EXTENDS Integers, Sequences, FiniteSets, TLC

(* ------------------------------ bounds --------------------------------- *)
\* number of caller processes holding a SerialCommand facade
NumCallers == 2
\* total number of putCommand calls made by the callers
MaxPuts == 2
\* size of the sample of the id space that random.randrange draws from
NumIds == 2
\* number of SerialInterface.quit() / signal-handler invocations
MaxQuits == 1
\* capacity of the command queue handed to the SerialInterface
QueueMaxsize == 2
\* number of particles of the filter
NumParticles == 2
\* map.xdim and map.ydim, in length units
XDim == 2
YDim == 2
\* the robot's motion noise multipliers
noise_turn == 1
noise_move == 1
\* numpy.random.random() is sampled at the multiples of 1/RandomDenom in [0, 1)
RandomDenom == 4
\* number of messages put on the navigator-to-localizer queue
MaxFeeds == 3
\* number of move commands the navigator receives
MaxMoves == 2
\* largest number of entries of a solution list
MaxSolLen == 3
\* largest distance of an xy step, in the navigator's unit
MaxDist == 8
\* largest continuous coordinate of a solution step, and the cell size, both in
\* the unit continuous coordinates are counted in
MaxCont == 3
CellUnits == 2
\* longest path of the track follower, and the number of times vision reports
\* blobs to it
MaxEdges == 2
MaxPickups == 2
\* largest -n (max. reads) given to the sensor-reading harness, and the number
\* of termination signals sent to it
MaxReads == 4
MaxSignals == 2
\* largest descriptor grid
MaxRows == 2
MaxCols == 2

(* ------------------------- program constants --------------------------- *)
max_command_id == 32767
prefix_id == TRUE
\* initial / reset value of SerialInterface.fake_id, also the default key
\* of recvLoop and the id of the (-1, "quit") record
NoFakeId == -1
\* config["steps_between_locs"] of the navigator
steps_between_locs == 5
\* the number of descriptor values of a map cell, and the one that means wall
NumDescs == 10
WallDesc == 8

Callers == 1..NumCallers
\* ids random.randrange(max_command_id) is sampled from: 0 <= id < max_command_id
IdSample == {i \in 0..(NumIds - 1) : i < max_command_id}

VARIABLES
  cfg,        \* configuration: can the port be opened?, is_sequential, is the timeout None?
  runPc,      \* position of SerialInterface.run (main thread of the process)
  device,     \* "none" | "open" | "closed"
  live,       \* SerialInterface.live
  fake_id,    \* SerialInterface.fake_id
  sendPc,     \* sendLoop thread
  recvPc,     \* recvLoop thread
  recvId,     \* fakeRecv in the receive thread: the fake_id read into the response
  recvErr,    \* recvLoop left through one of its two error breaks
  execPc,     \* execLoop thread
  execId,     \* id argument of the execute() call in progress
  commands,   \* shared command queue: sequence of command records
  responses,  \* shared response map: id -> response
  wire,       \* every command written to the port, in write order
  fwPending,  \* commands the firmware has received and not yet answered
  rx,         \* lines the firmware has written and recv has not yet read
  cpc,        \* per caller: position inside getResponse
  cid,        \* per caller: id argument of the getResponse in progress
  crun,       \* per caller: the getResponse in progress belongs to runCommand
  nput,       \* number of putCommand calls made so far
  got,        \* the last response a getResponse returned, with the id that was asked for
  fetched,    \* per stored response (by serial number): times returned by a get
  nStored,    \* number of responses stored so far
  nQuit,      \* number of SerialInterface.quit() calls made
  op,         \* a call of a function checked on its own: its name and its arguments
  out,        \* what that call returned or raised
  particles,  \* the Particles object: its arrays x, y and theta
  movePc,     \* the Particles.move call in progress: loop index and arguments
  resPc,      \* the Particles.resample call in progress: its local variables
  feed,       \* qNav_loc, the navigator-to-localizer queue, and the number of puts made
  bot_loc,    \* the shared bot-location dict: x, y, theta, dirty
  writer,     \* per key of bot_loc: the process that wrote it last
  locPc,      \* the localizer process: position in run() and its local variables
  navPc,      \* the navigator process: position in Nav.loop and its local variables
  tf,         \* the track follower: position in run() and traverse(), and its MOVE thread
  reader      \* the sensor-reading harness: position in main() and its local variables

vars == <<cfg, runPc, device, live, fake_id, sendPc, recvPc, recvId, recvErr, execPc,
          execId, commands, responses, wire, fwPending, rx, cpc, cid, crun,
          nput, got, fetched, nStored, nQuit, op, out, particles, movePc, resPc,
          feed, bot_loc, writer, locPc, navPc, tf, reader>>

muxVars == <<runPc, device, live, fake_id, sendPc, recvPc, recvId, recvErr, execPc, execId>>
lineVars == <<wire, fwPending, rx>>
callerVars == <<cpc, cid, crun, nput, got, fetched>>
ipcVars == <<feed, bot_loc, writer, locPc, navPc>>
locVars == <<resPc, ipcVars>>
appVars == <<tf, reader>>

(* ------------------------------ records -------------------------------- *)
\* a response dict; hasId says whether the 'id' key is present
Response(hasId, id, sn) == [hasId |-> hasId, id |-> id, result |-> TRUE, sn |-> sn]
\* the value None returned by a non-blocking getResponse
None == [hasId |-> FALSE, id |-> 0, result |-> FALSE, sn |-> 0]

\* dict.get('id', default)
GetIdWrong(r, default) == default
GetId(r, default) == IF r.hasId THEN r.id ELSE default

\* dict[key] = value
DictSetDefault(d, key, value) == [k \in DOMAIN d \cup {key} |-> IF k \in DOMAIN d THEN d[k] ELSE value]
DictSet(d, key, value) == [k \in DOMAIN d \cup {key} |-> IF k = key THEN value ELSE d[k]]

\* key in dict
DictHasNever(d, key) == FALSE
DictHas(d, key) == key \in DOMAIN d

\* dict.pop(key): the dict without key
DictPopKeep(d, key) == d
DictPop(d, key) == [k \in DOMAIN d \ {key} |-> d[k]]

\* Queue.get() on a non-empty queue: the record returned and the queue it leaves
QueueGetLifo(q) == [item |-> q[Len(q)], rest |-> SubSeq(q, 1, Len(q) - 1)]
QueueGet(q) == [item |-> Head(q), rest |-> Tail(q)]


(* --------------------------- initial state ----------------------------- *)
Configs == [port : BOOLEAN, sequential : BOOLEAN, timeoutNone : BOOLEAN]

NoGet == [req |-> 0, run |-> FALSE, resp |-> None]
\* no function is being checked on its own
NoCall == [name |-> "none"]

MuxInit(c) ==
  /\ cfg = c
  /\ runPc = "start"
  /\ device = "none"
  /\ live = FALSE
  /\ fake_id = NoFakeId
  /\ sendPc = "idle" /\ recvPc = "idle" /\ execPc = "idle"
  /\ recvErr = FALSE
  /\ recvId = NoFakeId
  /\ execId = NoFakeId
  /\ commands = <<>>
  /\ responses = <<>>
  /\ wire = <<>> /\ fwPending = {} /\ rx = <<>>
  /\ cpc = [c2 \in Callers |-> "idle"]
  /\ cid = [c2 \in Callers |-> 0]
  /\ crun = [c2 \in Callers |-> FALSE]
  /\ nput = 0
  /\ got = NoGet
  /\ fetched = [sn \in 1..MaxPuts |-> 0]
  /\ nStored = 0
  /\ nQuit = 0

\* no particle filter exists
NoParticles == [x |-> <<>>, y |-> <<>>, theta |-> <<>>, prob |-> <<>>]
\* no Particles.move call is in progress and none has been made
MoveIdle == [i |-> 0, dtheta |-> 0, forward |-> 0, moved |-> FALSE, clipped |-> FALSE]
\* the message being handled when there is none
NoMsg == [kind |-> "none", keys |-> {}, by |-> "none", sn |-> 0]
\* track_follower's manager.dict(x=-1, y=-1, theta=0.0, dirty=False); the queue is
\* empty; the localizer is about to call get(); the navigator waits for a command
\* the track follower has not been constructed
NoTrack == [pc |-> "none"]
\* the sensor-reading harness has not been started
NoReader == [pc |-> "none"]
AppInit ==
  /\ tf = NoTrack
  /\ reader = NoReader
IpcInit ==
  /\ feed = [q |-> <<>>, n |-> 0]
  /\ bot_loc = [x |-> -1, y |-> -1, theta |-> 0, dirty |-> FALSE]
  /\ writer = [x |-> "init", y |-> "init", theta |-> "init", dirty |-> "init"]
  /\ locPc = [pc |-> "get", msg |-> NoMsg, calls |-> <<>>, guess |-> <<>>, last |-> 0]
  /\ navPc = [pc |-> "wait", sol |-> <<>>, cur_step |-> 0, n |-> 0, result |-> "none"]
\* no Particles.resample call is in progress and none has been made
ResampleIdle ==
  [pc |-> "idle", i |-> 0, step |-> 0, cur |-> 0, beta |-> 0, new |-> <<>>,
   resampled |-> FALSE]

InitWith(c) ==
  /\ MuxInit(c)
  /\ op = NoCall
  /\ out = NoCall
  /\ particles = NoParticles
  /\ movePc = MoveIdle
  /\ resPc = ResampleIdle
  /\ IpcInit
  /\ AppInit

Init == \E c \in Configs : InitWith(c)

Fake == device = "none"

(* ------------------------- SerialInterface.run ------------------------- *)
\* open the port (or fall back to the fake substitutes), set live, start the threads
Start ==
  /\ runPc = "start"
  /\ runPc' = "loops"
  /\ device' = IF cfg.port THEN "open" ELSE "none"
  /\ live' = TRUE
  /\ IF cfg.sequential
       THEN execPc' = "loop" /\ UNCHANGED <<sendPc, recvPc>>
       ELSE sendPc' = "loop" /\ recvPc' = "loop" /\ UNCHANGED execPc
  /\ UNCHANGED <<appVars, locVars, particles, movePc, op, out, cfg, fake_id, recvId, recvErr, execId, commands, responses, lineVars,
                 callerVars, nStored, nQuit>>

\* the threads run() waits for have ended
ThreadsJoinedNoWait == TRUE
ThreadsJoined ==
  IF cfg.sequential THEN execPc = "done" ELSE sendPc = "done" /\ recvPc = "done"

\* the join() calls return
Join ==
  /\ runPc = "loops"
  /\ ThreadsJoined
  /\ runPc' = "drain"
  /\ UNCHANGED <<appVars, locVars, particles, movePc, op, out, cfg, device, live, fake_id, sendPc, recvPc, recvId, recvErr, execPc, execId,
                 commands, responses, lineVars, callerVars, nStored, nQuit>>

\* Queue.empty()
QueueEmptyAlways(q) == TRUE
QueueEmpty(q) == q = <<>>

\* clean up: get pending commands until the queue is empty
Drain ==
  /\ runPc = "drain"
  /\ IF QueueEmpty(commands)
       THEN runPc' = "clear" /\ UNCHANGED commands
       ELSE commands' = QueueGet(commands).rest /\ UNCHANGED runPc
  /\ UNCHANGED <<appVars, locVars, particles, movePc, op, out, cfg, device, live, fake_id, sendPc, recvPc, recvId, recvErr, execPc, execId,
                 responses, lineVars, callerVars, nStored, nQuit>>

\* clean up: responses.clear()
Clear ==
  /\ runPc = "clear"
  /\ runPc' = "close"
  /\ responses' = <<>>
  /\ UNCHANGED <<appVars, locVars, particles, movePc, op, out, cfg, device, live, fake_id, sendPc, recvPc, recvId, recvErr, execPc, execId,
                 commands, lineVars, callerVars, nStored, nQuit>>

\* clean up: close the port if one is open
Close ==
  /\ runPc = "close"
  /\ runPc' = "finished"
  /\ device' = IF device = "open" THEN "closed" ELSE device
  /\ UNCHANGED <<appVars, locVars, particles, movePc, op, out, cfg, live, fake_id, sendPc, recvPc, recvId, recvErr, execPc, execId,
                 commands, responses, lineVars, callerVars, nStored, nQuit>>

\* the record SerialInterface.quit() puts: (-1, "quit"); caller 0 is the
\* multiplexer itself
QuitRecordStop == [id |-> -1, command |-> "stop", caller |-> 0, n |-> 0]
QuitRecord == [id |-> -1, command |-> "quit", caller |-> 0, n |-> 0]

\* SerialInterface.quit(), called from outside the process (main's signal handler,
\* an owner of the object); Queue.put blocks while the queue is full
SIQuit ==
  /\ nQuit < MaxQuits
  /\ Len(commands) < QueueMaxsize
  /\ commands' = Append(commands, QuitRecord)
  /\ nQuit' = nQuit + 1
  /\ UNCHANGED <<appVars, locVars, particles, movePc, op, out, cfg, muxVars, responses, lineVars, callerVars, nStored>>

\* handleSignal: installed by run() before the threads start and reset after
\* they are joined; it logs the signal and calls self.quit()
HandleSignal ==
  /\ runPc = "loops"
  /\ SIQuit



\* if command == "quit": the loops' test for the shutdown sentinel
IsQuitMinusOne(c) == c.command = "quit" /\ c.id = NoFakeId
IsQuit(c) == c.command = "quit"

(* ------------------------- send / recv primitives ---------------------- *)
\* send(id, command) on a real port, fakeSend(id, command) without one.
\* ok: device.write returned (otherwise it raised, which send logs and swallows)
Send(c, ok) ==
  IF Fake
    THEN /\ fake_id' = IF prefix_id THEN c.id ELSE fake_id
         /\ UNCHANGED lineVars
    ELSE /\ wire' = IF ok THEN Append(wire, c) ELSE wire
         /\ fwPending' = IF ok THEN fwPending \cup {c} ELSE fwPending
         /\ UNCHANGED <<fake_id, rx>>

\* responses[key] = response, the response numbered as the next one stored
Store(key, hasId, id) ==
  /\ nStored' = nStored + 1
  /\ responses' = DictSet(responses, key, Response(hasId, id, nStored + 1))

\* recv() on a real port: readline() returned a line that parses
LineReady == ~Fake /\ rx # <<>> /\ Head(rx).kind # "garbage"
\* recv() on a real port: readline() returned nothing within the timeout
BlankReady == ~Fake /\ rx = <<>> /\ ~cfg.timeoutNone
\* recv() on a real port returns None: readline() raised (ioerror), or the line
\* it returned does not parse
RecvFails(ioerror) ==
  /\ ~Fake
  /\ IF ioerror THEN UNCHANGED rx
                ELSE rx # <<>> /\ Head(rx).kind = "garbage" /\ rx' = Tail(rx)

(* ------------------------------ sendLoop ------------------------------- *)
SendLoop ==
  /\ sendPc = "loop"
  /\ IF ~live
       THEN /\ sendPc' = "done"
            /\ UNCHANGED <<live, fake_id, commands, lineVars>>
       ELSE /\ commands # <<>>
            /\ commands' = QueueGet(commands).rest
            /\ IF IsQuit(QueueGet(commands).item)
                 THEN /\ live' = FALSE
                      /\ sendPc' = "done"
                      /\ UNCHANGED <<fake_id, lineVars>>
                 ELSE /\ \E ok \in BOOLEAN : Send(QueueGet(commands).item, ok)
                      /\ UNCHANGED <<live, sendPc>>
  /\ UNCHANGED <<appVars, locVars, particles, movePc, op, out, cfg, runPc, device, recvPc, recvId, recvErr, execPc, execId, responses,
                 callerVars, nStored, nQuit>>

(* ------------------------------ recvLoop ------------------------------- *)
\* recvLoop's key for a response without an 'id' key
RecvDefaultKeyLastSent == IF wire = <<>> THEN NoFakeId ELSE wire[Len(wire)].id
RecvDefaultKey == NoFakeId

\* while self.live: ... response = self.recv()
RecvEnter ==
  /\ recvPc = "loop"
  /\ recvPc' = IF live THEN "recv" ELSE "done"
  /\ UNCHANGED <<appVars, locVars, particles, movePc, op, out, cfg, runPc, device, live, fake_id, sendPc, recvId, recvErr, execPc, execId,
                 commands, responses, lineVars, callerVars, nStored, nQuit>>

\* recv() returns a response: store it under its id, or under the default key
RecvLine ==
  /\ recvPc = "recv"
  /\ LineReady
  /\ rx' = Tail(rx)
  /\ Store(GetId(Head(rx), RecvDefaultKey), Head(rx).hasId, Head(rx).id)
  /\ recvPc' = "loop"
  /\ UNCHANGED <<appVars, locVars, particles, movePc, op, out, cfg, runPc, device, live, fake_id, sendPc, recvId, recvErr, execPc, execId,
                 commands, wire, fwPending, callerVars, nQuit>>

\* recv() returns { }: nothing to store
RecvBlank ==
  /\ recvPc = "recv"
  /\ BlankReady
  /\ recvPc' = "loop"
  /\ UNCHANGED <<appVars, locVars, particles, movePc, op, out, cfg, runPc, device, live, fake_id, sendPc, recvId, recvErr, execPc, execId,
                 commands, responses, lineVars, callerVars, nStored, nQuit>>

\* recv() returns None: print the error and break
RecvError(ioerror) ==
  /\ recvPc = "recv"
  /\ RecvFails(ioerror)
  /\ recvPc' = "done"
  /\ recvErr' = TRUE
  /\ UNCHANGED <<appVars, locVars, particles, movePc, op, out, cfg, runPc, device, live, fake_id, sendPc, recvId, execPc, execId,
                 commands, responses, wire, fwPending, callerVars, nStored, nQuit>>

\* fakeRecv: the polling loop and the test of fake_id, then the read of
\* fake_id that builds the response
FakeRecvCheck ==
  /\ recvPc = "recv"
  /\ Fake
  /\ IF fake_id = NoFakeId
       THEN IF cfg.timeoutNone
              THEN \* sleep(None / 10) raises; recvLoop catches it and breaks
                   /\ recvPc' = "done"
                   /\ recvErr' = TRUE
                   /\ UNCHANGED recvId
              ELSE /\ recvPc' = "loop"
                   /\ UNCHANGED <<recvErr, recvId>>
       ELSE /\ recvPc' = "clear"
            /\ recvId' = fake_id
            /\ UNCHANGED recvErr
  /\ UNCHANGED <<appVars, locVars, particles, movePc, op, out, cfg, runPc, device, live, fake_id, sendPc, execPc, execId, commands,
                 responses, lineVars, callerVars, nStored, nQuit>>

\* what fakeRecv leaves in fake_id once it has built its response
FakeIdAfterRecvKept == fake_id
FakeIdAfterRecv == NoFakeId

\* fakeRecv: self.fake_id = -1, return; recvLoop stores the response
FakeRecvClear ==
  /\ recvPc = "clear"
  /\ fake_id' = FakeIdAfterRecv
  /\ Store(GetId(Response(TRUE, recvId, 0), RecvDefaultKey), TRUE, recvId)
  /\ recvPc' = "loop"
  /\ recvId' = NoFakeId
  /\ UNCHANGED <<appVars, locVars, particles, movePc, op, out, cfg, runPc, device, live, sendPc, recvErr, execPc, execId,
                 commands, lineVars, callerVars, nQuit>>

(* ------------------------------ execLoop ------------------------------- *)
\* while self.live: get a command; "quit" ends the loop; otherwise execute() sends it
ExecGet ==
  /\ execPc = "loop"
  /\ IF ~live
       THEN /\ execPc' = "done"
            /\ UNCHANGED <<live, fake_id, execId, commands, lineVars>>
       ELSE /\ commands # <<>>
            /\ commands' = QueueGet(commands).rest
            /\ IF IsQuit(QueueGet(commands).item)
                 THEN /\ live' = FALSE
                      /\ execPc' = "done"
                      /\ UNCHANGED <<fake_id, execId, lineVars>>
                 ELSE /\ \E ok \in BOOLEAN : Send(QueueGet(commands).item, ok)
                      /\ execId' = QueueGet(commands).item.id
                      /\ execPc' = "recv"
                      /\ UNCHANGED live
  /\ UNCHANGED <<appVars, locVars, particles, movePc, op, out, cfg, runPc, device, sendPc, recvPc, recvId, recvErr, responses,
                 callerVars, nStored, nQuit>>

\* execute(): after a blank response, whether the while loop calls recv() again
KeepReceivingNever == FALSE
KeepReceiving == live

\* execLoop's key for a response without an 'id' key: the id passed to execute()
ExecDefaultKeyMinusOne == NoFakeId
ExecDefaultKey == execId

\* execute() returns a response: execLoop stores it under its id, or under the
\* id that was passed to execute()
ExecLine ==
  /\ execPc = "recv"
  /\ LineReady
  /\ rx' = Tail(rx)
  /\ Store(GetId(Head(rx), ExecDefaultKey), Head(rx).hasId, Head(rx).id)
  /\ execPc' = "loop"
  /\ UNCHANGED <<appVars, locVars, particles, movePc, op, out, cfg, runPc, device, live, fake_id, sendPc, recvPc, recvId, recvErr,
                 execId, commands, wire, fwPending, callerVars, nQuit>>

\* execute(): recv() returned { }; while live holds the loop calls recv() again,
\* so the step leaves the thread where it was (the code polls once per timeout)
ExecBlank ==
  /\ execPc = "recv"
  /\ BlankReady
  /\ execPc' = IF KeepReceiving THEN "recv" ELSE "loop"
  /\ UNCHANGED <<appVars, locVars, particles, movePc, op, out, cfg, runPc, device, live, fake_id, sendPc, recvPc, recvId, recvErr,
                 execId, commands, responses, lineVars, callerVars, nStored, nQuit>>

\* execute() returns None: print the error and break
ExecError(ioerror) ==
  /\ execPc = "recv"
  /\ RecvFails(ioerror)
  /\ execPc' = "done"
  /\ UNCHANGED <<appVars, locVars, particles, movePc, op, out, cfg, runPc, device, live, fake_id, sendPc, recvPc, recvId, recvErr,
                 execId, commands, responses, wire, fwPending, callerVars, nStored, nQuit>>

\* execute(): fakeRecv() in the exec thread, right after fakeSend()
FakeExecRecv ==
  /\ execPc = "recv"
  /\ Fake
  /\ IF fake_id = NoFakeId
       THEN /\ execPc' = IF cfg.timeoutNone THEN "done"
                         ELSE IF KeepReceiving THEN "recv" ELSE "loop"
            /\ UNCHANGED <<fake_id, responses, nStored>>
       ELSE /\ Store(GetId(Response(TRUE, fake_id, 0), ExecDefaultKey), TRUE, fake_id)
            /\ fake_id' = FakeIdAfterRecv
            /\ execPc' = "loop"
  /\ UNCHANGED <<appVars, locVars, particles, movePc, op, out, cfg, runPc, device, live, sendPc, recvPc, recvId, recvErr, execId,
                 commands, lineVars, callerVars, nQuit>>

(* ------------------------------ firmware ------------------------------- *)
\* the board answers one of the commands it has received with one line: a JSON
\* object echoing the id, a JSON object without an id, or a line that does not parse
FwKinds == {"echo", "noid", "garbage"}

FirmwareRespond ==
  /\ \E c \in fwPending, kind \in FwKinds :
       /\ fwPending' = fwPending \ {c}
       /\ rx' = Append(rx, [kind |-> kind, hasId |-> (kind = "echo"),
                            id |-> IF kind = "echo" THEN c.id ELSE 0])
  /\ UNCHANGED <<appVars, locVars, particles, movePc, op, out, cfg, muxVars, commands, responses, wire, callerVars, nStored, nQuit>>


(* ---------------------------- SerialCommand ---------------------------- *)
\* putCommand: enqueue (id, command); Queue.put blocks while the queue is full
EnqueueUnbounded(c, id, command) ==
  /\ nput < MaxPuts
  /\ nput' = nput + 1
  /\ commands' = Append(commands, [id |-> id, command |-> command, caller |-> c, n |-> nput + 1])
Enqueue(c, id, command) ==
  /\ nput < MaxPuts
  /\ Len(commands) < QueueMaxsize
  /\ nput' = nput + 1
  /\ commands' = Append(commands, [id |-> id, command |-> command, caller |-> c, n |-> nput + 1])

\* putCommand(command) called on its own: id = random.randrange(max_command_id)
PutCommand(c) ==
  /\ cpc[c] = "idle"
  /\ \E id \in IdSample : Enqueue(c, id, "cmd")
  /\ UNCHANGED <<appVars, locVars, particles, movePc, op, out, cfg, muxVars, responses, lineVars, cpc, cid, crun, got, fetched,
                 nStored, nQuit>>

\* putCommand(command) called while the queue is full: the id is drawn, then
\* Queue.put blocks
PutBlocked(c) ==
  /\ cpc[c] = "idle"
  /\ Len(commands) >= QueueMaxsize
  /\ nput + Cardinality({c2 \in Callers : cpc[c2] = "put"}) < MaxPuts
  /\ \E id \in IdSample : cid' = [cid EXCEPT ![c] = id]
  /\ cpc' = [cpc EXCEPT ![c] = "put"]
  /\ UNCHANGED <<appVars, locVars, particles, movePc, op, out, cfg, muxVars, commands, responses, lineVars, crun, nput, got, fetched,
                 nStored, nQuit>>

\* the blocked Queue.put finds room, enqueues (id, command) and putCommand returns
PutResume(c) ==
  /\ cpc[c] = "put"
  /\ Enqueue(c, cid[c], "cmd")
  /\ cpc' = [cpc EXCEPT ![c] = "idle"]
  /\ cid' = [cid EXCEPT ![c] = 0]
  /\ UNCHANGED <<appVars, locVars, particles, movePc, op, out, cfg, muxVars, responses, lineVars, crun, got, fetched, nStored, nQuit>>

\* SerialCommand.quit(): putCommand("quit")
SCQuit(c) ==
  /\ cpc[c] = "idle"
  /\ \E id \in IdSample : Enqueue(c, id, "quit")
  /\ UNCHANGED <<appVars, locVars, particles, movePc, op, out, cfg, muxVars, responses, lineVars, cpc, cid, crun, got, fetched,
                 nStored, nQuit>>

\* runCommand(command): putCommand, then getResponse(id) with block=True
RunCommand(c) ==
  /\ cpc[c] = "idle"
  /\ \E id \in IdSample :
       /\ Enqueue(c, id, "cmd")
       /\ cid' = [cid EXCEPT ![c] = id]
  /\ cpc' = [cpc EXCEPT ![c] = "spin"]
  /\ crun' = [crun EXCEPT ![c] = TRUE]
  /\ UNCHANGED <<appVars, locVars, particles, movePc, op, out, cfg, muxVars, responses, lineVars, got, fetched, nStored, nQuit>>

\* runCommand's getResponse: while not id in self.responses: pass
Spin(c) ==
  /\ cpc[c] = "spin"
  /\ DictHas(responses, cid[c])
  /\ cpc' = [cpc EXCEPT ![c] = "pop"]
  /\ UNCHANGED <<appVars, locVars, particles, movePc, op, out, cfg, muxVars, commands, responses, lineVars, cid, crun, nput, got,
                 fetched, nStored, nQuit>>

\* getResponse(id, block) called on its own, up to its membership test: with the
\* id present the call goes on to the pop; with it absent a non-blocking call
\* returns None and a blocking call keeps testing
GetResponse(c) ==
  /\ cpc[c] = "idle"
  /\ \E id \in IdSample \cup {NoFakeId}, block \in BOOLEAN :
       IF DictHas(responses, id)
         THEN /\ cpc' = [cpc EXCEPT ![c] = "pop"]
              /\ cid' = [cid EXCEPT ![c] = id]
              /\ UNCHANGED got
         ELSE /\ ~block
              /\ got' = [req |-> id, run |-> FALSE, resp |-> None]
              /\ UNCHANGED <<cpc, cid>>
  /\ UNCHANGED <<appVars, locVars, particles, movePc, op, out, cfg, muxVars, commands, responses, lineVars, crun, nput, fetched,
                 nStored, nQuit>>

\* getResponse: response = self.responses.pop(id); return response.
\* A key that is gone by now raises KeyError
Pop(c) ==
  /\ cpc[c] = "pop"
  /\ IF DictHas(responses, cid[c])
       THEN /\ got' = [req |-> cid[c], run |-> crun[c], resp |-> responses[cid[c]]]
            /\ fetched' = [fetched EXCEPT ![responses[cid[c]].sn] = @ + 1]
            /\ responses' = DictPop(responses, cid[c])
            /\ cpc' = [cpc EXCEPT ![c] = "idle"]
       ELSE /\ cpc' = [cpc EXCEPT ![c] = "raised"]
            /\ UNCHANGED <<got, fetched, responses>>
  /\ cid' = [cid EXCEPT ![c] = 0]
  /\ crun' = [crun EXCEPT ![c] = FALSE]
  /\ UNCHANGED <<appVars, locVars, particles, movePc, op, out, cfg, muxVars, commands, lineVars, nput, nStored, nQuit>>

(* ---------------------- SerialCommand domain wrappers ------------------ *)
\* Numbers are counted in tenths, so that values between two integers exist.
\* int(x): truncation toward zero
PyInt(x) == IF x >= 0 THEN (x \div 10) * 10 ELSE -(((-x) \div 10) * 10)

\* the fields a wrapper reads from a response dict; r.has is the set of keys present
Fields == {"result", "distance", "absHeading", "headingErr", "data"}
\* dict.get(field, default)
Get(r, field, default) == IF field \in r.has THEN r[field] ELSE default

\* module-level dict of sensor names and ids
sensors ==
  [n \in {"heading", "accel.x", "accel.y", "accel.z", "ultrasonic.left",
          "ultrasonic.front", "ultrasonic.right", "ultrasonic.back"} |->
     CASE n = "heading" -> 0 [] n = "accel.x" -> 1 [] n = "accel.y" -> 2
       [] n = "accel.z" -> 3 [] n = "ultrasonic.left" -> 4
       [] n = "ultrasonic.front" -> 5 [] n = "ultrasonic.right" -> 6
       [] n = "ultrasonic.back" -> 7]

\* the methods class SerialCommand defines
SerialCommandMethods ==
  {"putCommand", "getResponse", "runCommand", "quit", "botStop", "botPWMDrive",
   "botSet", "botMove", "botFollow", "botTurnAbs", "botTurnRel", "armSetAngle",
   "armUp", "armDown", "gripperSetAngle", "gripperOpen", "gripperClose", "armPick",
   "armDrop", "getAllSensorData", "getSensorData", "getSensorDataByName",
   "compassReset"}

\* a wrapper returned value v / raised an exception
Returns(v) == [raised |-> FALSE, value |-> v]
Raises == [raised |-> TRUE, value |-> "exception"]

\* r is the response runCommand returned to the wrapper
botStop(r) == Returns(Get(r, "result", FALSE))
botPWMDrive(r) == Returns(Get(r, "result", FALSE))
botSet(distance, angle, r) ==
  Returns(<<PyInt(Get(r, "distance", distance)), PyInt(Get(r, "absHeading", angle))>>)
botMove(distance, r) == Returns(PyInt(Get(r, "distance", distance)))
botFollow(distance, r) == Returns(PyInt(Get(r, "distance", distance)))
botTurnAbs(angle, r) == Returns(Get(r, "absHeading", angle))
botTurnRel(angle, r) == Returns(angle - Get(r, "headingErr", 0))
armSetAngle(r) == Returns(Get(r, "result", FALSE))
gripperSetAngle(r) == Returns(Get(r, "result", FALSE))
armPick(r) == Returns(Get(r, "result", FALSE))
armDrop(r) == Returns(Get(r, "result", FALSE))
compassReset(r) == Returns(Get(r, "result", FALSE))
getSensorData(r) == Returns(PyInt(Get(r, "data", -10)))
\* sensorId = sensors.get(sensorName, None); a known name goes on to
\* self.getSensorValue(sensorId), an attribute lookup on the SerialCommand object
getSensorDataByName(sensorName, r) ==
  IF sensorName \in DOMAIN sensors
    THEN IF "getSensorValue" \in SerialCommandMethods
           THEN getSensorData(r)
           ELSE Raises
    ELSE Returns(-10)

WrapperNames ==
  {"botStop", "botPWMDrive", "botSet", "botMove", "botFollow", "botTurnAbs",
   "botTurnRel", "armSetAngle", "gripperSetAngle", "armPick", "armDrop",
   "getSensorData", "getSensorDataByName", "compassReset"}

\* the wrapper named in the call, applied to its arguments and its response
Wrapper(call) ==
  CASE call.name = "botStop" -> botStop(call.response)
    [] call.name = "botPWMDrive" -> botPWMDrive(call.response)
    [] call.name = "botSet" -> botSet(call.distance, call.angle, call.response)
    [] call.name = "botMove" -> botMove(call.distance, call.response)
    [] call.name = "botFollow" -> botFollow(call.distance, call.response)
    [] call.name = "botTurnAbs" -> botTurnAbs(call.angle, call.response)
    [] call.name = "botTurnRel" -> botTurnRel(call.angle, call.response)
    [] call.name = "armSetAngle" -> armSetAngle(call.response)
    [] call.name = "gripperSetAngle" -> gripperSetAngle(call.response)
    [] call.name = "armPick" -> armPick(call.response)
    [] call.name = "armDrop" -> armDrop(call.response)
    [] call.name = "getSensorData" -> getSensorData(call.response)
    [] call.name = "getSensorDataByName" -> getSensorDataByName(call.sensorName, call.response)
    [] call.name = "compassReset" -> compassReset(call.response)

\* a wrapper call returns (or raises)
CallWrapper ==
  /\ op.name \in WrapperNames
  /\ out = NoCall
  /\ out' = Wrapper(op)
  /\ UNCHANGED <<appVars, locVars, particles, movePc, op, cfg, muxVars, commands, responses, lineVars, callerVars, nStored, nQuit>>

(* ------------------------ localizer: Particles ------------------------- *)
\* Angles are counted in quarter turns, so that 2*pi is 4 units and cos and sin
\* are whole numbers; lengths are counted in whole length units.
TwoPi == 4
cos(t) ==
  CASE t % TwoPi = 0 -> 1 [] t % TwoPi = 1 -> 0 [] t % TwoPi = 2 -> -1 [] t % TwoPi = 3 -> 0
sin(t) == cos(t - 1)

\* random.gauss(mu, sigma) with z the standard normal draw behind it
gauss(mu, sigma, z) == mu + z * sigma
ZSample == {-1, 0, 1}

\* numpy clip of one element
ClipNone(v, lo, hi) == v
Clip(v, lo, hi) == IF v < lo THEN lo ELSE IF v > hi THEN hi ELSE v

\* the arguments move() is called with
Turns == {-1, 0, 1}
Forwards == {0, 1, 3}

\* numpy.zeros(n)
zeros(n) == [i \in 1..n |-> 0]

IsSorted(s) == \A i \in 1..(Len(s) - 1) : s[i] <= s[i + 1]

\* Particles.__init__: x sorted, x in [0, xdim), y in [0, ydim), theta in [0, 2*pi)
NewParticles ==
  {[x |-> xs, y |-> ys, theta |-> ts, prob |-> ps] :
     xs \in {s \in [1..NumParticles -> 0..(XDim - 1)] : IsSorted(s)},
     ys \in [1..NumParticles -> 0..(YDim - 1)],
     ts \in [1..NumParticles -> 0..(TwoPi - 1)],
     ps \in {zeros(NumParticles)}}

\* move(dtheta, forward) is called, with forward one of the given distances
MoveCallWith(forwards) ==
  /\ movePc.i = 0
  /\ resPc.pc = "idle"
  /\ particles # NoParticles
  /\ \E dtheta \in Turns, forward \in forwards :
       movePc' = [movePc EXCEPT !.i = 1, !.dtheta = dtheta, !.forward = forward]
  /\ UNCHANGED <<appVars, locVars, particles, op, out, cfg, muxVars, commands, responses, lineVars,
                 callerVars, nStored, nQuit>>
MoveCall == MoveCallWith(Forwards)

\* one iteration of the loop over the particles: turn, then move forward, each
\* with its noise draw
MoveStep ==
  /\ movePc.i \in 1..NumParticles
  /\ \E zt \in ZSample, zx \in ZSample, zy \in ZSample :
       LET i == movePc.i
           turned == (particles.theta[i] + movePc.dtheta) % TwoPi
           theta == gauss(turned, movePc.dtheta * noise_turn, zt)
           dx == movePc.forward * cos(theta)
           dy == movePc.forward * sin(theta)
       IN  particles' = [particles EXCEPT
                           !.theta[i] = theta,
                           !.x[i] = gauss(@ + dx, dx * noise_move, zx),
                           !.y[i] = gauss(@ + dy, dy * noise_move, zy)]
  /\ movePc' = [movePc EXCEPT !.i = @ + 1]
  /\ UNCHANGED <<appVars, locVars, op, out, cfg, muxVars, commands, responses, lineVars, callerVars,
                 nStored, nQuit>>

\* after the loop: self.y = y.clip(0, ydim); self.x = x.clip(0, xdim); move returns.
\* movePc records whether the loop had left a particle on both sides of the map
MoveClip ==
  /\ movePc.i = NumParticles + 1
  /\ particles' = [particles EXCEPT
                      !.x = [i \in 1..NumParticles |-> Clip(particles.x[i], 0, XDim)],
                      !.y = [i \in 1..NumParticles |-> Clip(particles.y[i], 0, YDim)]]
  /\ movePc' = [i |-> 0, dtheta |-> 0, forward |-> 0, moved |-> TRUE,
                clipped |-> /\ \E i \in 1..NumParticles :
                                  particles.x[i] > XDim \/ particles.y[i] > YDim
                            /\ \E i \in 1..NumParticles :
                                  particles.x[i] < 0 \/ particles.y[i] < 0]
  /\ UNCHANGED <<appVars, locVars, op, out, cfg, muxVars, commands, responses, lineVars, callerVars,
                 nStored, nQuit>>

\* Weights are counted in units of 1/NumParticles, so that 1/N is one unit and
\* the weight 1.0 is NumParticles units.  beta is kept multiplied by RandomDenom.
WeightOne == NumParticles
OneOverN == WeightOne \div NumParticles
\* the products of gaussian() values that the weighting loop can leave in prob
WeightSample == 0..WeightOne
RandomSample == 0..(RandomDenom - 1)

\* max() of an array
Max(s) == CHOOSE m \in {s[i] : i \in DOMAIN s} : \A i \in DOMAIN s : s[i] <= m

\* int(random() * numpts), as an index of the arrays (which start at 1 here)
StartIndex(rq) == ((rq * NumParticles) \div RandomDenom) + 1

\* (cur + 1) % numpts on the indices 1..numpts
NextIndexStay(cur) == cur
NextIndex(cur) == (cur % NumParticles) + 1

\* the loop test of the wheel: beta > self.prob[cur]
BetaExceeds(beta, w) == beta > RandomDenom * w

\* resample(measured) is called: the weighting loop fills self.prob with one of
\* the given weights per particle, then step, cur and beta are set
ResampleCallWith(weights) ==
  /\ resPc.pc = "idle"
  /\ movePc.i = 0
  /\ particles # NoParticles
  /\ \E w \in [1..NumParticles -> weights], rq \in RandomSample :
       /\ particles' = [particles EXCEPT !.prob = w]
       /\ resPc' = [resPc EXCEPT !.pc = "draw", !.i = 1, !.step = Max(w) * 2,
                                 !.cur = StartIndex(rq), !.beta = 0, !.new = <<>>]
  /\ UNCHANGED <<appVars, ipcVars, movePc, op, out, cfg, muxVars, commands, responses, lineVars, callerVars,
                 nStored, nQuit>>
ResampleCall == ResampleCallWith(WeightSample)

\* beta += random() * step
ResampleDraw ==
  /\ resPc.pc = "draw"
  /\ \E rq \in RandomSample :
       resPc' = [resPc EXCEPT !.pc = "while", !.beta = @ + rq * resPc.step]
  /\ UNCHANGED <<appVars, ipcVars, particles, movePc, op, out, cfg, muxVars, commands, responses, lineVars,
                 callerVars, nStored, nQuit>>

\* one iteration of the while loop: beta -= self.prob[cur]; cur = (cur+1) % numpts
ResampleAdvance ==
  /\ resPc.pc = "while"
  /\ BetaExceeds(resPc.beta, particles.prob[resPc.cur])
  /\ resPc' = [resPc EXCEPT !.beta = @ - RandomDenom * particles.prob[resPc.cur],
                            !.cur = NextIndex(@)]
  /\ UNCHANGED <<appVars, ipcVars, particles, movePc, op, out, cfg, muxVars, commands, responses, lineVars,
                 callerVars, nStored, nQuit>>

\* the tuple (cur, x[cur], y[cur], theta[cur], self.prob[cur])
EntryMixed(cur) ==
  <<cur, particles.x[cur], particles.y[NextIndex(cur)], particles.theta[cur],
    particles.prob[cur]>>
Entry(cur) ==
  <<cur, particles.x[cur], particles.y[cur], particles.theta[cur], particles.prob[cur]>>

\* the while loop is left: new.append((cur, x[cur], y[cur], theta[cur], prob[cur]))
ResampleEmit ==
  /\ resPc.pc = "while"
  /\ ~BetaExceeds(resPc.beta, particles.prob[resPc.cur])
  /\ LET cur == resPc.cur
     IN  resPc' = [resPc EXCEPT
                     !.new = Append(@, Entry(cur)),
                     !.i = @ + 1,
                     !.pc = IF resPc.i = NumParticles THEN "replace" ELSE "draw"]
  /\ UNCHANGED <<appVars, ipcVars, particles, movePc, op, out, cfg, muxVars, commands, responses, lineVars,
                 callerVars, nStored, nQuit>>

\* after the loop: self.x, self.y and self.theta are rebuilt from new; self.prob
\* is left as the weighting loop filled it; resample returns
ResampleReplace ==
  /\ resPc.pc = "replace"
  /\ particles' = [particles EXCEPT
                      !.x = [k \in 1..Len(resPc.new) |-> resPc.new[k][2]],
                      !.y = [k \in 1..Len(resPc.new) |-> resPc.new[k][3]],
                      !.theta = [k \in 1..Len(resPc.new) |-> resPc.new[k][4]]]
  /\ resPc' = [ResampleIdle EXCEPT !.resampled = TRUE]
  /\ UNCHANGED <<appVars, ipcVars, movePc, op, out, cfg, muxVars, commands, responses, lineVars, callerVars,
                 nStored, nQuit>>

(* ------------------- localizer and navigator processes ------------------ *)
\* the other variables, which the localizer and navigator processes never touch
restVars ==
  <<appVars, resPc, particles, movePc, op, out, cfg, muxVars, commands, responses, lineVars,
    callerVars, nStored, nQuit>>

\* Queue.put(msg): the message gets the number of its put
QueuePut(f, msg) == [q |-> Append(f.q, [msg EXCEPT !.sn = f.n + 1]), n |-> f.n + 1]

\* the keys run() reads from a motion message: msg['dTheta'], msg['dXY'],
\* msg['sensorData'] and sensorData['ultrasonic']
KeysRead == {"dTheta", "dXY", "sensorData", "ultrasonic"}

\* type(msg) == str and msg == 'die'
IsDieNever(msg) == FALSE
IsDie(msg) == msg.kind = "die"

\* msg = ipc_channel.get(); a 'die' message ends the process
LocGet ==
  /\ locPc.pc = "get"
  /\ feed.q # <<>>
  /\ LET got_ == QueueGet(feed.q)
     IN  /\ feed' = [feed EXCEPT !.q = got_.rest]
         /\ locPc' = [locPc EXCEPT !.msg = got_.item, !.calls = <<>>,
                                   !.last = got_.item.sn,
                                   !.pc = IF IsDie(got_.item) THEN "exited" ELSE "read"]
  /\ UNCHANGED <<bot_loc, writer, navPc, restVars>>

\* turn, move = msg['dTheta'], msg['dXY'], then the ultrasonic readings are
\* copied out of msg['sensorData']; a missing key or a string raises and the
\* process dies
LocRead ==
  /\ locPc.pc = "read"
  /\ locPc' = [locPc EXCEPT !.pc = IF locPc.msg.kind = "motion" /\ KeysRead \subseteq locPc.msg.keys
                                   THEN "move" ELSE "failed"]
  /\ UNCHANGED <<feed, bot_loc, writer, navPc, restVars>>

\* ideal.move(turn, move); localizer.move(turn, move)
LocMove ==
  /\ locPc.pc = "move"
  /\ locPc' = [locPc EXCEPT !.pc = "update", !.calls = Append(@, "move")]
  /\ UNCHANGED <<feed, bot_loc, writer, navPc, restVars>>

\* localizer.update(sensors)
LocUpdate ==
  /\ locPc.pc = "update"
  /\ locPc' = [locPc EXCEPT !.pc = "guess", !.calls = Append(@, "update")]
  /\ UNCHANGED <<feed, bot_loc, writer, navPc, restVars>>

\* the poses localizer.guess() returns
GuessSample == {<<1, 1, 0>>, <<2, 1, 1>>}

\* guess = localizer.guess()
LocGuess ==
  /\ locPc.pc = "guess"
  /\ \E g \in GuessSample :
       locPc' = [locPc EXCEPT !.pc = "x", !.calls = Append(@, "guess"), !.guess = g]
  /\ UNCHANGED <<feed, bot_loc, writer, navPc, restVars>>

\* bot_loc['x'] = guess.x; bot_loc['y'] = guess.y; bot_loc['theta'] = guess.theta;
\* bot_loc['dirty'] = False: four writes to the shared dict, one per step
LocWriteAtOnce ==
  /\ locPc.pc = "x"
  /\ bot_loc' = [x |-> locPc.guess[1], y |-> locPc.guess[2], theta |-> locPc.guess[3],
                 dirty |-> FALSE]
  /\ writer' = [k \in DOMAIN writer |-> "localizer"]
  /\ locPc' = [locPc EXCEPT !.pc = "get"]
  /\ UNCHANGED <<feed, navPc, restVars>>
LocWrite ==
  /\ locPc.pc \in {"x", "y", "theta", "dirty"}
  /\ bot_loc' = CASE locPc.pc = "x" -> [bot_loc EXCEPT !.x = locPc.guess[1]]
                  [] locPc.pc = "y" -> [bot_loc EXCEPT !.y = locPc.guess[2]]
                  [] locPc.pc = "theta" -> [bot_loc EXCEPT !.theta = locPc.guess[3]]
                  [] locPc.pc = "dirty" -> [bot_loc EXCEPT !.dirty = FALSE]
  /\ writer' = [writer EXCEPT ![locPc.pc] = "localizer"]
  /\ locPc' = [locPc EXCEPT !.pc = CASE locPc.pc = "x" -> "y"
                                     [] locPc.pc = "y" -> "theta"
                                     [] locPc.pc = "theta" -> "dirty"
                                     [] locPc.pc = "dirty" -> "get"]
  /\ UNCHANGED <<feed, navPc, restVars>>

Localizer == LocGet \/ LocRead \/ LocMove \/ LocUpdate \/ LocGuess \/ LocWrite

\* Lengths inside the navigator are counted in tenths of a millimetre, those of
\* bot_loc in inches: XYTobot_locUC is float(XY) / 0.0254, XYFrombot_locUC is
\* 0.0254 * float(XY); the two theta conversions are float(theta).
XYTobot_locUC(XY) == XY \div 254
XYFrombot_locUC(XY) == 254 * XY
thetaTobot_locUC(theta) == theta
thetaFrombot_locUC(theta) == theta

\* the message feedLocalizerXY and feedLocalizerTheta put on qNav_loc; whether
\* the sensor data hold ultrasonic readings depends on the board's answer
NavMessage(ultrasonic) ==
  [kind |-> "motion", by |-> "navigator", sn |-> 0,
   keys |-> {"commResult", "sensorData", "timestamp"}
            \cup (IF ultrasonic THEN {"ultrasonic"} ELSE {})]

\* the steps of a solution list: what whichXYTheta (or, with "bad", one of the
\* error returns of communicateSol) makes of the step, and its continuous pose
SolSteps ==
  {[kind |-> k, cont_x |-> c[1], cont_y |-> c[2], cont_theta |-> c[3]] :
     k \in {"xy", "theta", "bad"}, c \in {<<254, 508, 0>>, <<508, 508, 1>>}}
\* the solution lists genSol returns, without their first entry (the start pose)
Sols == UNION {[1..n -> SolSteps] : n \in 0..(MaxSolLen - 1)}

\* move_cmd = self.qMove_nav.get() and the dispatch on its type.  A macro move
\* enters macroMove; microMoveTheta turns and feeds the localizer; microMoveXY
\* calls distToCommUC with two arguments, which raises; "die" ends the process
NavCommand ==
  /\ navPc.pc = "wait"
  /\ navPc.n < MaxMoves
  /\ \E cmd \in {"macro_move", "micro_move_XY", "micro_move_theta", "die"}, u \in BOOLEAN :
       CASE cmd = "macro_move" ->
              /\ navPc' = [navPc EXCEPT !.pc = "macro", !.n = @ + 1]
              /\ UNCHANGED feed
         [] cmd = "micro_move_XY" ->
              /\ navPc' = [navPc EXCEPT !.pc = "failed", !.n = @ + 1]
              /\ UNCHANGED feed
         [] cmd = "micro_move_theta" ->
              /\ feed.n < MaxFeeds
              /\ feed' = QueuePut(feed, NavMessage(u))
              /\ navPc' = [navPc EXCEPT !.n = @ + 1]
         [] cmd = "die" ->
              /\ navPc' = [navPc EXCEPT !.pc = "exited", !.n = @ + 1]
              /\ UNCHANGED feed
  /\ UNCHANGED <<bot_loc, writer, locPc, restVars>>

\* one round of the loop of macroMove: at the goal it returns; otherwise genSol
\* is asked for a solution; a list goes to communicateSol, which returns at once
\* when the list has at most one entry; anything else ends the macro move
NavPlan ==
  /\ navPc.pc = "macro"
  /\ \/ navPc' = [navPc EXCEPT !.pc = "wait", !.sol = <<>>, !.cur_step = 0]
     \/ \E sol \in Sols :
          navPc' = [navPc EXCEPT
                      !.sol = sol, !.cur_step = 0,
                      !.pc = IF Len(sol) = 0 THEN "wait" ELSE "step",
                      !.result = IF Len(sol) = 0 THEN "WARNING_SHORT_SOL" ELSE "none"]
  /\ UNCHANGED <<feed, bot_loc, writer, locPc, restVars>>

\* one round of the inner loop of communicateSol: the step is sent to the board
\* (botMove or botTurnRel) and its result is fed to the localizer; after
\* steps_between_locs steps, or the last one, the loop is left
NavStep ==
  /\ navPc.pc = "step"
  /\ LET step == navPc.sol[navPc.cur_step + 1]
         cur_step == navPc.cur_step + 1
     IN  IF step.kind = "bad"
         THEN /\ navPc' = [navPc EXCEPT !.pc = "wait", !.cur_step = cur_step,
                                        !.result = "ERROR"]
              /\ UNCHANGED feed
         ELSE /\ feed.n < MaxFeeds
              /\ \E u \in BOOLEAN : feed' = QueuePut(feed, NavMessage(u))
              /\ navPc' = [navPc EXCEPT
                              !.cur_step = cur_step,
                              !.pc = IF cur_step % steps_between_locs = 0
                                        \/ cur_step = Len(navPc.sol)
                                     THEN "x" ELSE "step"]
  /\ UNCHANGED <<bot_loc, writer, locPc, restVars>>

\* "Localize": self.bot_loc["x"], ["y"] and ["theta"] are set to the pose of the
\* solution step just executed: three writes to the shared dict, one per step
NavWrite ==
  /\ navPc.pc \in {"x", "y", "theta"}
  /\ LET step == navPc.sol[navPc.cur_step]
     IN  bot_loc' = CASE navPc.pc = "x" -> [bot_loc EXCEPT !.x = XYTobot_locUC(step.cont_x)]
                      [] navPc.pc = "y" -> [bot_loc EXCEPT !.y = XYTobot_locUC(step.cont_y)]
                      [] navPc.pc = "theta" ->
                           [bot_loc EXCEPT !.theta = thetaTobot_locUC(step.cont_theta)]
  /\ writer' = [writer EXCEPT ![navPc.pc] = "navigator"]
  /\ navPc' = [navPc EXCEPT !.pc = CASE navPc.pc = "x" -> "y"
                                     [] navPc.pc = "y" -> "theta"
                                     [] navPc.pc = "theta" -> "check"]
  /\ UNCHANGED <<feed, locPc, restVars>>

\* int(a * 10**(sig_fig - 1)) with sig_fig = 3: the whole hundredths of a value
\* counted in ten-thousandths (tenths of a millimetre, or of a milliradian)
Hundredths(a) == IF a >= 0 THEN a \div 100 ELSE -((-a) \div 100)

\* nearly_equal(a, b) with its defaults: True on a == b; True when a and b have
\* the same whole hundredths; after that (a - acceptOffBy) is evaluated with
\* acceptOffBy = env_config["cellsize"], the string "0.00635", which raises
\* TypeError, so the final `return False` is never reached
nearly_equalNever(a, b) == "False"
nearly_equal(a, b) ==
  IF a = b THEN "True"
  ELSE IF Hundredths(a) = Hundredths(b) THEN "True"
  ELSE "TypeError"

\* a heading in ten-thousandths of a radian (a quarter turn is 1.5708 rad)
RadUnits(theta) == 15708 * theta

\* nearly_equal(cont_x, curX) and nearly_equal(cont_y, curY) and
\* nearly_equal(cont_theta, curTheta), evaluated left to right
CheckPose(step, loc) ==
  LET ex == nearly_equal(step.cont_x, XYFrombot_locUC(loc.x))
      ey == nearly_equal(step.cont_y, XYFrombot_locUC(loc.y))
      et == nearly_equal(RadUnits(step.cont_theta), RadUnits(thetaFrombot_locUC(loc.theta)))
  IN  IF ex # "True" THEN ex ELSE IF ey # "True" THEN ey ELSE et

\* bot_loc is read back and compared with the step: on a match the outer loop
\* goes on (and communicateSol returns after the last step); on False
\* ERROR_FAILED_MOVE is returned and macroMove plans again; an exception of
\* nearly_equal ends the navigator process
NavCheck ==
  /\ navPc.pc = "check"
  /\ LET near == CheckPose(navPc.sol[navPc.cur_step], bot_loc)
     IN  navPc' = [navPc EXCEPT
                     !.result = CASE near = "True" -> "none"
                                  [] near = "False" -> "ERROR_FAILED_MOVE"
                                  [] OTHER -> near,
                     !.pc = CASE near = "True" /\ navPc.cur_step < Len(navPc.sol) -> "step"
                              [] near = "TypeError" -> "failed"
                              [] OTHER -> "macro"]
  /\ UNCHANGED <<feed, bot_loc, writer, locPc, restVars>>

Navigator == NavCommand \/ NavPlan \/ NavStep \/ NavWrite \/ NavCheck

\* the messages a well-behaved feeder (such as Fake_IPC) hands the localizer
FeederMessages ==
  {[kind |-> "motion", by |-> "feeder", sn |-> 0,
    keys |-> {"dTheta", "dXY", "sensorData", "timestamp", "ultrasonic"}],
   [kind |-> "die", by |-> "feeder", sn |-> 0, keys |-> {}]}

\* some other process puts a motion message or 'die' on the queue
FeederPut ==
  /\ feed.n < MaxFeeds
  /\ \E msg \in FeederMessages : feed' = QueuePut(feed, msg)
  /\ UNCHANGED <<bot_loc, writer, locPc, navPc, restVars>>

(* ------------------- navigator: distances on the wire ------------------- *)
\* Distances inside the navigator are counted in units of 1/500 m.  The wire
\* unit is 1/100 m and wire values are counted in tenths like every other
\* wrapper number, so float(dist) * 100 doubles the number and
\* float(commResult) / 100 halves it.
distToCommUC(dist) == 2 * dist
distFromCommUCRaw(commResult) == commResult
distFromCommUC(commResult) ==
  IF commResult >= 0 THEN commResult \div 2 ELSE -((-commResult) \div 2)

\* communicateSol's xy step: the distance goes to the board through botMove and
\* the wrapper's result comes back in the navigator's unit
commResult_m(distance_m, r) == distFromCommUC(botMove(distToCommUC(distance_m), r).value)

\* the xy step is carried out for the distance and the board's response held by op
NavMove ==
  /\ op.name = "navMove"
  /\ out = NoCall
  /\ out' = [name |-> "navMove", value |-> commResult_m(op.distance, op.response)]
  /\ UNCHANGED <<appVars, locVars, particles, movePc, op, cfg, muxVars, commands, responses, lineVars,
                 callerVars, nStored, nQuit>>

(* --------------- navigator: what changes between two steps -------------- *)
\* XYxorTheta(step_prev, step_cur): True when x or y changed and theta did not,
\* or theta changed and x and y did not; False when both changed;
\* ERROR_NO_CHANGE when none did.  All three comparisons are on cont_ fields
XYxorTheta(step_prev, step_cur) ==
  IF step_prev.cont_x # step_cur.cont_x \/ step_prev.cont_y # step_cur.cont_y
    THEN IF step_prev.cont_theta # step_cur.cont_theta THEN "False" ELSE "True"
    ELSE IF step_prev.cont_theta # step_cur.cont_theta
           THEN "True"
           ELSE "ERROR_NO_CHANGE"

\* whichXYTheta(step_prev, step_cur): "theta" when cont_theta changed; else "xy"
\* when the cell indices x or y changed; else ERROR_NO_CHANGE
whichXYTheta(step_prev, step_cur) ==
  IF step_prev.cont_theta # step_cur.cont_theta
    THEN "theta"
    ELSE IF step_prev.x # step_cur.x \/ step_prev.y # step_cur.y
           THEN "xy"
           ELSE "ERROR_NO_CHANGE"

\* communicateSol on sol[j-1], sol[j]: XYxorTheta, then whichXYTheta unless
\* XYxorTheta made communicateSol return
StepKind ==
  /\ op.name = "stepKind"
  /\ out = NoCall
  /\ out' = [name |-> "stepKind",
             xor |-> XYxorTheta(op.step_prev, op.step_cur),
             which |-> IF XYxorTheta(op.step_prev, op.step_cur) = "True"
                         THEN whichXYTheta(op.step_prev, op.step_cur)
                         ELSE "not called"]
  /\ UNCHANGED <<appVars, locVars, particles, movePc, op, cfg, muxVars, commands, responses, lineVars, callerVars, nStored, nQuit>>

(* ---------------------------- track follower --------------------------- *)
\* the props of an edge that traverse reads; no edge of the graph is both a
\* pickup and a drop-off edge
EdgeProps ==
  {[isPickup |-> FALSE, isDropoff |-> FALSE],
   [isPickup |-> TRUE, isDropoff |-> FALSE],
   [isPickup |-> FALSE, isDropoff |-> TRUE]}

\* TrackFollower after __init__ and the start of run(): about to traverse the
\* first edge of path; Bot starts with both arms empty and nothing changes that
TrackStart(path) ==
  [pc |-> "run", path |-> path, edge |-> 1,
   naving |-> FALSE, cv_blobTrack |-> FALSE, traversalComplete |-> TRUE,
   isEmptyLeft |-> TRUE, isEmptyRight |-> TRUE,
   mpc |-> "none", started |-> 0, ended |-> 0, pickups |-> 0,
   finalTurn |-> FALSE, finalStop |-> FALSE]

\* MOVE threads that were started and have not finished
MoveThreads == tf.started - tf.ended

\* traverse(edge) up to its loop: the MOVE thread is created, naving is set,
\* the thread is started, traversalComplete = True
TfTraverse ==
  /\ tf.pc = "run"
  /\ tf' = [tf EXCEPT !.pc = "poll", !.naving = TRUE, !.traversalComplete = TRUE,
                      !.mpc = "turn", !.started = @ + 1]
  /\ UNCHANGED <<reader, locVars, particles, movePc, op, out, cfg, muxVars, commands, responses, lineVars,
                 callerVars, nStored, nQuit>>

\* one round of `while self.bot_state['naving']`: on a pickup edge with an empty
\* arm blob tracking is requested, and if vision has reported blobs the bot is
\* stopped, the block is picked and the loop is left with traversalComplete
\* False; on a drop-off edge with a loaded arm the loop is left; otherwise blob
\* tracking is switched off and the loop goes on
TfPoll ==
  /\ tf.pc = "poll"
  /\ LET edge == tf.path[tf.edge]
     IN  IF ~tf.naving
           THEN tf' = [tf EXCEPT !.pc = "join"]
           ELSE IF edge.isPickup /\ (tf.isEmptyLeft \/ tf.isEmptyRight)
             THEN \/ tf' = [tf EXCEPT !.cv_blobTrack = TRUE]
                  \/ /\ tf.pickups < MaxPickups
                     /\ tf' = [tf EXCEPT !.cv_blobTrack = TRUE, !.traversalComplete = FALSE,
                                         !.pickups = @ + 1, !.pc = "join"]
             ELSE IF edge.isDropoff /\ (~tf.isEmptyLeft \/ ~tf.isEmptyRight)
               THEN tf' = [tf EXCEPT !.cv_blobTrack = TRUE, !.pc = "join"]
               ELSE tf' = [tf EXCEPT !.cv_blobTrack = FALSE]
  /\ UNCHANGED <<reader, locVars, particles, movePc, op, out, cfg, muxVars, commands, responses, lineVars,
                 callerVars, nStored, nQuit>>

\* self.moveThread.join(); return traversalComplete.  In run(), `while not
\* self.traverse(edge)` calls traverse again on False and the for loop takes
\* the next edge on True; after the last edge comes the final turn
TfJoinNoWait ==
  /\ tf.pc = "join"
  /\ tf' = [tf EXCEPT
              !.pc = IF tf.traversalComplete /\ tf.edge = Len(tf.path) THEN "turn" ELSE "run",
              !.edge = IF tf.traversalComplete /\ tf.edge < Len(tf.path) THEN @ + 1 ELSE @]
  /\ UNCHANGED <<reader, locVars, particles, movePc, op, out, cfg, muxVars, commands, responses, lineVars,
                 callerVars, nStored, nQuit>>
TfJoin ==
  /\ tf.pc = "join"
  /\ tf.mpc = "ended"
  /\ tf' = [tf EXCEPT
              !.pc = IF tf.traversalComplete /\ tf.edge = Len(tf.path) THEN "turn" ELSE "run",
              !.edge = IF tf.traversalComplete /\ tf.edge < Len(tf.path) THEN @ + 1 ELSE @]
  /\ UNCHANGED <<reader, locVars, particles, movePc, op, out, cfg, muxVars, commands, responses, lineVars,
                 callerVars, nStored, nQuit>>

\* run() after the loops: self.turn(edge.toNode.theta), then self.stop()
TfFinish ==
  /\ tf.pc \in {"turn", "stop"}
  /\ tf' = IF tf.pc = "turn" THEN [tf EXCEPT !.pc = "stop", !.finalTurn = TRUE]
                             ELSE [tf EXCEPT !.pc = "quit", !.finalStop = TRUE]
  /\ UNCHANGED <<reader, locVars, particles, movePc, op, out, cfg, muxVars, commands, responses, lineVars,
                 callerVars, nStored, nQuit>>

\* run(): self.sc.quit() puts (id, "quit") on the command queue
TfQuit ==
  /\ tf.pc = "quit"
  /\ \E id \in IdSample : Enqueue(1, id, "quit")
  /\ tf' = [tf EXCEPT !.pc = "done"]
  /\ UNCHANGED <<reader, locVars, particles, movePc, op, out, cfg, muxVars, responses, lineVars,
                 cpc, cid, crun, got, fetched, nStored, nQuit>>

\* move() in the MOVE thread: botTurnRel, then botFollow or botMove, then the
\* bot's location is updated and naving is cleared; after that the thread ends
TfMove ==
  /\ tf.mpc \in {"turn", "go", "update", "exit"}
  /\ tf' = CASE tf.mpc = "turn" -> [tf EXCEPT !.mpc = "go"]
              [] tf.mpc = "go" -> [tf EXCEPT !.mpc = "update"]
              [] tf.mpc = "update" -> [tf EXCEPT !.mpc = "exit", !.naving = FALSE]
              [] tf.mpc = "exit" -> [tf EXCEPT !.mpc = "ended", !.ended = @ + 1]
  /\ UNCHANGED <<reader, locVars, particles, movePc, op, out, cfg, muxVars, commands, responses, lineVars,
                 callerVars, nStored, nQuit>>

(* ----------------------- sensor-reading harness ------------------------ *)
\* main() of read_sensors after the signal handlers are installed: live = True,
\* ctr = 0; sensors counts the sensors commands issued, late those issued after
\* a signal was handled
ReaderStart(maxReads) ==
  [pc |-> "loop", maxReads |-> maxReads, live |-> TRUE, ctr |-> 0,
   signals |-> 0, sensors |-> 0, late |-> 0]

\* handleSignal(signum, frame) inside main(): it prints and executes
\* `live = False`, an assignment that binds a name local to the handler;
\* main's own live is a different variable and keeps its value
ReaderSignal ==
  /\ reader.pc = "loop"
  /\ reader.signals < MaxSignals
  /\ reader' = [reader EXCEPT !.signals = @ + 1]
  /\ UNCHANGED <<tf, locVars, particles, movePc, op, out, cfg, muxVars, commands, responses, lineVars,
                 callerVars, nStored, nQuit>>

\* while live and ctr < maxReads: sc.getAllSensorData(); ctr = ctr + 1.  When
\* the test fails the handlers are reset and the loop is left
ReaderLoop ==
  /\ reader.pc = "loop"
  /\ IF reader.live /\ reader.ctr < reader.maxReads
       THEN reader' = [reader EXCEPT
                         !.ctr = @ + 1, !.sensors = @ + 1,
                         !.late = IF reader.signals > 0 THEN @ + 1 ELSE @]
       ELSE reader' = [reader EXCEPT !.pc = "quit"]
  /\ UNCHANGED <<tf, locVars, particles, movePc, op, out, cfg, muxVars, commands, responses, lineVars,
                 callerVars, nStored, nQuit>>

\* sc.quit() puts (id, "quit") on the command queue; si.join() follows
ReaderQuit ==
  /\ reader.pc = "quit"
  /\ \E id \in IdSample : Enqueue(1, id, "quit")
  /\ reader' = [reader EXCEPT !.pc = "done"]
  /\ UNCHANGED <<tf, locVars, particles, movePc, op, out, cfg, muxVars, responses, lineVars,
                 cpc, cid, crun, got, fetched, nStored, nQuit>>

(* --------------------------- localizer: Map ---------------------------- *)
\* desc_to_walls = zeros(10, dtype=int); desc_to_walls[8] = 1
desc_to_wallsZeros == [i \in 0..(NumDescs - 1) |-> 0]
desc_to_walls == [i \in 0..(NumDescs - 1) |-> IF i = WallDesc THEN 1 ELSE 0]

\* array([desc_to_walls[i] for i in grid[:][:]['desc']]): every row of
\* descriptors is looked up in desc_to_walls, element by element
MapData(grid) ==
  [r \in 1..Len(grid) |-> [c \in 1..Len(grid[r]) |-> desc_to_walls[grid[r][c]]]]

\* Map.update() on the descriptor grid held by op
MapUpdate ==
  /\ op.name = "Map.update"
  /\ out = NoCall
  /\ out' = [name |-> "Map.update", data |-> MapData(op.grid)]
  /\ UNCHANGED <<appVars, locVars, particles, movePc, op, cfg, muxVars, commands, responses, lineVars,
                 callerVars, nStored, nQuit>>

(* --------------------------- specifications ---------------------------- *)
\* Fake mode, pipelined loops, callers that only use runCommand.  Every thread
\* of the multiplexer and every caller keeps being scheduled.
FakeInit == InitWith([port |-> FALSE, sequential |-> FALSE, timeoutNone |-> FALSE])
FakeRecvThread == RecvEnter \/ FakeRecvCheck \/ FakeRecvClear
FakeNext ==
  \/ Start \/ SendLoop \/ RecvEnter \/ FakeRecvCheck \/ FakeRecvClear
  \/ \E c \in Callers : RunCommand(c)
  \/ \E c \in Callers : Spin(c)
  \/ \E c \in Callers : Pop(c)
FakeSpec ==
  /\ FakeInit /\ [][FakeNext]_vars
  /\ WF_vars(Start) /\ WF_vars(SendLoop) /\ WF_vars(FakeRecvThread)
  /\ \A c \in Callers : WF_vars(Spin(c)) /\ WF_vars(Pop(c))

\* A real port, pipelined loops, callers that use putCommand and getResponse.
PipeInit == InitWith([port |-> TRUE, sequential |-> FALSE, timeoutNone |-> FALSE])
PipeNext ==
  \/ Start \/ SendLoop \/ RecvEnter \/ RecvLine \/ RecvBlank
  \/ \E ioerror \in BOOLEAN : RecvError(ioerror)
  \/ FirmwareRespond
  \/ \E c \in Callers : PutCommand(c)
  \/ \E c \in Callers : GetResponse(c)
  \/ \E c \in Callers : Pop(c)
PipeSpec == PipeInit /\ [][PipeNext]_vars

\* A real port, pipelined loops, callers that only enqueue commands.
SendNext ==
  \/ Start \/ SendLoop \/ RecvEnter \/ RecvLine \/ RecvBlank
  \/ \E ioerror \in BOOLEAN : RecvError(ioerror)
  \/ FirmwareRespond
  \/ \E c \in Callers : PutCommand(c)
SendSpec == PipeInit /\ [][SendNext]_vars

\* A real port, the sequential exec loop, callers that only enqueue commands.
SeqInit == InitWith([port |-> TRUE, sequential |-> TRUE, timeoutNone |-> FALSE])
SeqNext ==
  \/ Start \/ ExecGet \/ ExecLine \/ ExecBlank
  \/ \E ioerror \in BOOLEAN : ExecError(ioerror)
  \/ FirmwareRespond
  \/ \E c \in Callers : PutCommand(c)
SeqSpec == SeqInit /\ [][SeqNext]_vars

\* Shutdown: both modes, with and without a port, a finite read timeout.  Every
\* thread of the multiplexer keeps being scheduled, so a readline() that has a
\* line to return or a timeout to run into returns; the firmware, the callers
\* and the I/O errors of the line are under no obligation.
QuitInit ==
  \E p \in BOOLEAN, q \in BOOLEAN :
     InitWith([port |-> p, sequential |-> q, timeoutNone |-> FALSE])
QuitNext ==
  \/ Start \/ Join \/ Drain \/ Clear \/ Close
  \/ SendLoop \/ RecvEnter \/ RecvLine \/ RecvBlank
  \/ \E ioerror \in BOOLEAN : RecvError(ioerror)
  \/ FakeRecvCheck \/ FakeRecvClear
  \/ ExecGet \/ ExecLine \/ ExecBlank \/ FakeExecRecv
  \/ \E ioerror \in BOOLEAN : ExecError(ioerror)
  \/ FirmwareRespond
  \/ SIQuit \/ HandleSignal
  \/ \E c \in Callers : SCQuit(c)
  \/ \E c \in Callers : PutCommand(c)
QuitSpec ==
  /\ QuitInit /\ [][QuitNext]_vars
  /\ WF_vars(Start) /\ WF_vars(Join) /\ WF_vars(Drain) /\ WF_vars(Clear) /\ WF_vars(Close)
  /\ WF_vars(SendLoop)
  /\ WF_vars(RecvEnter \/ RecvLine \/ RecvBlank \/ RecvError(FALSE)
                \/ FakeRecvCheck \/ FakeRecvClear)
  /\ WF_vars(ExecGet \/ ExecLine \/ ExecBlank \/ ExecError(FALSE) \/ FakeExecRecv)


\* Shutdown with callers at work: both modes, with and without a port; callers
\* that run commands or ask for responses on their own, and shutdown requests.
DownNext ==
  \/ Start \/ Join \/ Drain \/ Clear \/ Close
  \/ SendLoop \/ RecvEnter \/ RecvLine \/ RecvBlank
  \/ \E ioerror \in BOOLEAN : RecvError(ioerror)
  \/ FakeRecvCheck \/ FakeRecvClear
  \/ ExecGet \/ ExecLine \/ ExecBlank \/ FakeExecRecv
  \/ \E ioerror \in BOOLEAN : ExecError(ioerror)
  \/ FirmwareRespond
  \/ SIQuit
  \/ \E c \in Callers : RunCommand(c)
  \/ \E c \in Callers : Spin(c)
  \/ \E c \in Callers : GetResponse(c)
  \/ \E c \in Callers : Pop(c)
DownSpec == QuitInit /\ [][DownNext]_vars

\* Fake mode with any configured timeout, a number of seconds or None; pipelined
\* loops, callers that use runCommand, and shutdown requests.
FakeAnyInit ==
  \E t \in BOOLEAN : InitWith([port |-> FALSE, sequential |-> FALSE, timeoutNone |-> t])
FakeAnyNext ==
  \/ FakeNext
  \/ SIQuit
FakeAnySpec == FakeAnyInit /\ [][FakeAnyNext]_vars

\* A real port, the send loop, and producers that meet a full queue: callers
\* that enqueue commands and shutdown requests.
BackNext ==
  \/ Start \/ SendLoop
  \/ SIQuit
  \/ \E c \in Callers : PutCommand(c)
  \/ \E c \in Callers : PutBlocked(c)
  \/ \E c \in Callers : PutResume(c)
BackSpec == PipeInit /\ [][BackNext]_vars

\* The domain wrappers on their own: every wrapper, applied to sampled arguments
\* and to a response dict with any subset of the fields present.
WrapArgs == {-15, 0, 20}
WrapValues == {10, 25}
WrapSensorNames == {"heading", "sonar"}
WrapResponses ==
  {[has |-> h, result |-> b, distance |-> v, absHeading |-> v, headingErr |-> v, data |-> v] :
     h \in SUBSET Fields, b \in BOOLEAN, v \in WrapValues}
WrapCalls ==
  {[name |-> n, distance |-> d, angle |-> a, sensorName |-> sn, response |-> r] :
     n \in WrapperNames, d \in WrapArgs, a \in WrapArgs, sn \in WrapSensorNames,
     r \in WrapResponses}
WrapInit ==
  /\ MuxInit([port |-> FALSE, sequential |-> FALSE, timeoutNone |-> FALSE])
  /\ op \in WrapCalls
  /\ out = NoCall
  /\ particles = NoParticles
  /\ movePc = MoveIdle
  /\ resPc = ResampleIdle
  /\ IpcInit
  /\ AppInit
WrapNext == CallWrapper
WrapSpec == WrapInit /\ [][WrapNext]_vars

\* A freshly constructed particle set that is moved again and again.
MoveInit ==
  /\ MuxInit([port |-> FALSE, sequential |-> FALSE, timeoutNone |-> FALSE])
  /\ op = NoCall
  /\ out = NoCall
  /\ particles \in NewParticles
  /\ movePc = MoveIdle
  /\ resPc = ResampleIdle
  /\ IpcInit
  /\ AppInit
MoveNext == MoveCall \/ MoveStep \/ MoveClip
MoveSpec == MoveInit /\ [][MoveNext]_vars

\* A freshly constructed particle set that is resampled again and again; the
\* thread that runs resample keeps running.
ResampleNext ==
  ResampleCall \/ ResampleDraw \/ ResampleAdvance \/ ResampleEmit \/ ResampleReplace
ResampleSpec == MoveInit /\ [][ResampleNext]_vars /\ WF_vars(ResampleNext)

\* The localizer process, the navigator process and a feeder share the queue
\* and the bot-location dict; every process keeps being scheduled.
IpcInit0 == InitWith([port |-> FALSE, sequential |-> FALSE, timeoutNone |-> FALSE])
IpcNext == Localizer \/ Navigator \/ FeederPut
IpcSpec == IpcInit0 /\ [][IpcNext]_vars /\ WF_vars(Localizer) /\ WF_vars(Navigator)

\* An xy step for every sampled distance and response: the response has a
\* distance field or not, and the field repeats the commanded value or reports
\* another one.
NavDistances == (0 - MaxDist)..MaxDist
NavMoveCalls ==
  {[name |-> "navMove", distance |-> d,
    response |-> [has |-> h, result |-> TRUE, distance |-> v]] :
     d \in NavDistances, h \in SUBSET {"result", "distance"},
     v \in WrapValues \cup {distToCommUC(dd) : dd \in NavDistances}}
ConvInit ==
  /\ MuxInit([port |-> FALSE, sequential |-> FALSE, timeoutNone |-> FALSE])
  /\ op \in NavMoveCalls
  /\ out = NoCall
  /\ particles = NoParticles
  /\ movePc = MoveIdle
  /\ resPc = ResampleIdle
  /\ IpcInit
  /\ AppInit
ConvNext == NavMove
ConvSpec == ConvInit /\ [][ConvNext]_vars

\* Every pair of steps of a solution file: a line holds the cell indices x, y,
\* theta and the continuous pose, the cell of a continuous coordinate being the
\* coordinate divided by the cell size, rounded down.
FileSteps ==
  {[x |-> cx \div CellUnits, y |-> cy \div CellUnits, theta |-> t,
    cont_x |-> cx, cont_y |-> cy, cont_theta |-> t] :
     cx \in 0..MaxCont, cy \in 0..MaxCont, t \in 0..(TwoPi - 1)}
StepInit ==
  /\ MuxInit([port |-> FALSE, sequential |-> FALSE, timeoutNone |-> FALSE])
  /\ op \in {[name |-> "stepKind", step_prev |-> p, step_cur |-> c] :
               p \in FileSteps, c \in FileSteps}
  /\ out = NoCall
  /\ particles = NoParticles
  /\ movePc = MoveIdle
  /\ resPc = ResampleIdle
  /\ IpcInit
  /\ AppInit
StepNext == StepKind
StepSpec == StepInit /\ [][StepNext]_vars

\* The track follower on every path of up to MaxEdges edges, its main thread
\* and its MOVE thread interleaved, vision reporting blobs at any time.
Paths == UNION {[1..n -> EdgeProps] : n \in 1..MaxEdges}
TrackInit ==
  /\ MuxInit([port |-> FALSE, sequential |-> FALSE, timeoutNone |-> FALSE])
  /\ op = NoCall
  /\ out = NoCall
  /\ particles = NoParticles
  /\ movePc = MoveIdle
  /\ resPc = ResampleIdle
  /\ IpcInit
  /\ reader = NoReader
  /\ tf \in {TrackStart(path) : path \in Paths}
TrackNext == TfTraverse \/ TfPoll \/ TfJoin \/ TfFinish \/ TfQuit \/ TfMove
TrackSpec == TrackInit /\ [][TrackNext]_vars

\* The sensor-reading harness for every -n up to MaxReads, with termination
\* signals arriving at any time while its handlers are installed.
ReaderInit ==
  /\ MuxInit([port |-> TRUE, sequential |-> FALSE, timeoutNone |-> FALSE])
  /\ op = NoCall
  /\ out = NoCall
  /\ particles = NoParticles
  /\ movePc = MoveIdle
  /\ resPc = ResampleIdle
  /\ IpcInit
  /\ tf = NoTrack
  /\ reader \in {ReaderStart(n) : n \in 0..MaxReads}
ReaderNext == ReaderSignal \/ ReaderLoop \/ ReaderQuit
ReaderSpec == ReaderInit /\ [][ReaderNext]_vars /\ WF_vars(ReaderLoop) /\ WF_vars(ReaderQuit)

\* Map.update on every descriptor grid of up to MaxRows rows and MaxCols columns.
Grids ==
  UNION {[1..rows -> [1..cols -> 0..(NumDescs - 1)]] : rows \in 1..MaxRows, cols \in 1..MaxCols}
MapInit ==
  /\ MuxInit([port |-> FALSE, sequential |-> FALSE, timeoutNone |-> FALSE])
  /\ op \in {[name |-> "Map.update", grid |-> g] : g \in Grids}
  /\ out = NoCall
  /\ particles = NoParticles
  /\ movePc = MoveIdle
  /\ resPc = ResampleIdle
  /\ IpcInit
  /\ AppInit
MapNext == MapUpdate
MapSpec == MapInit /\ [][MapNext]_vars

\* A freshly constructed particle set that is moved and resampled in any order.
\* The moves are short ones and a weight is zero or one: the long moves are
\* those of MoveSpec, the other weights those of ResampleSpec.
ShortForwards == {0, 1}
ZeroOrOne == {0, WeightOne}
FilterNext ==
  \/ MoveCallWith(ShortForwards) \/ MoveStep \/ MoveClip
  \/ ResampleCallWith(ZeroOrOne) \/ ResampleDraw \/ ResampleAdvance \/ ResampleEmit
  \/ ResampleReplace
FilterSpec == MoveInit /\ [][FilterNext]_vars

(* ------------------------------- claims -------------------------------- *)
AllIdle == \A c \in Callers : cpc[c] = "idle"
Returned == got.resp.sn # 0

\* C1: in fake mode with the pipelined loops every runCommand eventually returns,
\* and the response it returns has result = True and the id putCommand assigned.
C1_RunReturns ==
  /\ \A c \in Callers : (cpc[c] = "spin") ~> (cpc[c] = "idle")
  /\ []((Returned /\ got.run) => (got.resp.result /\ got.resp.hasId /\ got.resp.id = got.req))

\* C2: no stored response is returned by more than one getResponse call.
C2_NoDuplicateDelivery == \A sn \in DOMAIN fetched : fetched[sn] <= 1

\* two getResponse calls passed the membership test for the same stored response:
\* one popped it, the other found the key gone
C2_Witness ==
  /\ \E c \in Callers : cpc[c] = "raised"
  /\ \E sn \in DOMAIN fetched : fetched[sn] = 1

QuitQueued == \E i \in 1..Len(commands) : commands[i].command = "quit"
LoopsExited ==
  /\ sendPc \in {"idle", "done"}
  /\ recvPc \in {"idle", "done"}
  /\ execPc \in {"idle", "done"}
ShutDown == runPc = "finished" /\ LoopsExited /\ device # "open"

\* C3: once the shutdown sentinel is in the queue, the multiplexer eventually
\* reaches it, every loop thread exits and the port is closed.
C3_QuitShutsDown == QuitQueued ~> ShutDown

\* C4: when the receive loop leaves through an error break, shutdown is signalled
\* to the send loop as well (live is cleared).
C4_RecvErrorSignalsShutdown == recvErr => ~live

\* C5: with ids echoed, the response getResponse(id) returns is the one whose id
\* field equals id, whatever the order the responses arrive in.
C5_MatchedById == (Returned /\ got.resp.hasId) => got.resp.id = got.req

\* the second command written was answered and fetched while the first one written
\* is still unanswered
C5_Witness ==
  /\ Returned /\ got.resp.hasId
  /\ Len(wire) >= 2
  /\ wire[1] \in fwPending
  /\ wire[1].id # wire[2].id
  /\ got.req = wire[2].id

C7_NoResponseLeft ==
  AllIdle => /\ DOMAIN responses = {}
             /\ \A sn \in 1..nStored : fetched[sn] = 1

\* every run the model allows has been made and has returned
C7_Witness == AllIdle /\ nput = MaxPuts /\ nStored = MaxPuts /\ Returned

\* C8: every id putCommand returns is an integer in 0..32767 and differs from the
\* id of every other command that is still outstanding.
C8_IdsFresh ==
  /\ \A i \in 1..Len(commands) :
       commands[i].caller # 0 => commands[i].id \in 0..max_command_id
  /\ \A i, j \in 1..Len(commands) : i # j => commands[i].id # commands[j].id

\* the step in which the receive loop stores a response that has no id field
StoresIdless == nStored' = nStored + 1 /\ ~Head(rx).hasId

\* C9: in pipelined mode a received response without an id field is stored under
\* key -1 and is what getResponse(-1) returns; storing it leaves the entries under
\* every other id as they were.
C9_IdlessUnderMinusOne ==
  /\ [](\A k \in DOMAIN responses : ~responses[k].hasId => k = NoFakeId)
  /\ []((Returned /\ ~got.resp.hasId) => got.req = NoFakeId)
  /\ [][StoresIdless =>
          /\ DOMAIN responses' = DOMAIN responses \cup {NoFakeId}
          /\ responses'[NoFakeId].sn = nStored' /\ ~responses'[NoFakeId].hasId
          /\ \A k \in DOMAIN responses \ {NoFakeId} : responses'[k] = responses[k]]_vars

\* getResponse(-1) returned a response without an id while an entry under
\* another id stayed in the map
C9_Witness ==
  /\ Returned /\ ~got.resp.hasId /\ got.req = NoFakeId
  /\ \E k \in DOMAIN responses : k # NoFakeId /\ responses[k].sn < got.resp.sn

\* C10: in sequential mode the exec loop writes the next command only after a
\* non-empty response to the previous one has been stored, so at most one command
\* is outstanding on the wire.
C10_OneOutstanding ==
  /\ Len(wire) <= nStored + 1
  /\ Cardinality(fwPending) + Len(rx) <= 1

C10_Witness == Len(wire) >= 2 /\ nStored >= 1

\* C11: in sequential mode a non-empty response is stored under its own id when it
\* has one and otherwise under the id of the command just sent; no entry sits
\* under -1 unless -1 is the id the response carries.
C11_SeqStoreKey ==
  /\ [](\A k \in DOMAIN responses :
          IF responses[k].hasId
            THEN responses[k].id = k
            ELSE k # -1 /\ wire # <<>> /\ \E i \in 1..Len(wire) : wire[i].id = k)
  /\ [][nStored' > nStored =>
          LET r == Head(rx)
              k == IF r.hasId THEN r.id ELSE wire[Len(wire)].id
          IN  /\ k \in DOMAIN responses'
              /\ responses'[k].sn = nStored'
              /\ responses'[k].hasId = r.hasId]_vars

\* the exec loop has stored a response without an id under the id of the command
\* it had sent, next to a response stored under the id it carries
C11_Witness ==
  /\ cfg.sequential
  /\ \E k \in DOMAIN responses : ~responses[k].hasId /\ k = wire[Len(wire)].id
  /\ \E k \in DOMAIN responses : responses[k].hasId

C13_QuitIdempotent ==
  (runPc = "finished" /\ ~cfg.sequential) =>
     /\ \A i \in 1..Len(commands) : commands[i].command # "quit"
     /\ responses = <<>> /\ device # "open" /\ LoopsExited

\* C13 amended: whenever run() finishes, the loops have exited, the response map
\* is empty and the port is closed, whatever the number of sentinels; live, once
\* cleared, stays cleared; the drain leaves the queue empty, so sentinels enqueued
\* before its end are discarded; a record enqueued after the drain is never
\* dequeued and changes nothing but the queue.
C13_ExtraSentinels ==
  /\ [](runPc = "finished" => responses = <<>> /\ device # "open" /\ LoopsExited)
  /\ [][(runPc # "start" /\ ~live) => ~live']_vars
  /\ [][(runPc = "drain" /\ runPc' # "drain") => commands' = <<>>]_vars
  /\ [][(runPc \in {"clear", "close", "finished"}) =>
          (/\ Len(commands') >= Len(commands)
           /\ SubSeq(commands', 1, Len(commands)) = commands)]_vars
  /\ [][runPc = "finished" => muxVars' = muxVars /\ responses' = responses]_vars

\* the multiplexer has finished and a sentinel enqueued after the drain sits in
\* the queue
C13_Witness ==
  /\ runPc = "finished" /\ ~cfg.sequential /\ device = "closed"
  /\ \E i \in 1..Len(commands) : commands[i].command = "quit"

\* C14: in fake mode, for every configured timeout (None included), the
\* substituted receive never raises and never returns a null response, so the
\* receive loop does not leave through an error break and exits only once
\* shutdown has been signalled (live cleared).
C14_FakeNeverFails ==
  ~cfg.port => (~recvErr /\ (recvPc = "done" => ~live))

\* C15: the command queue never holds more records than its capacity; a put that
\* meets a full queue waits, and once a record has been dequeued it appends its
\* own record; records leave the queue only from the head, by a dequeue, so none
\* is dropped or rejected because the queue was full.
C15_Backpressure ==
  /\ [](Len(commands) <= QueueMaxsize)
  /\ [][commands' # commands =>
          \/ commands # <<>> /\ commands' = Tail(commands)
          \/ /\ Len(commands) < QueueMaxsize
             /\ Len(commands') = Len(commands) + 1
             /\ SubSeq(commands', 1, Len(commands)) = commands]_vars
  /\ [][\A c \in Callers :
          (cpc[c] = "put" /\ cpc'[c] # "put") =>
             /\ Len(commands) < QueueMaxsize
             /\ Len(commands') = Len(commands) + 1
             /\ commands'[Len(commands')].id = cid[c]
             /\ commands'[Len(commands')].caller = c]_vars
  /\ [][\A c \in Callers :
          (cpc[c] = "put" /\ Len(commands) >= QueueMaxsize) => cpc'[c] = "put"]_vars

\* a caller's put has met a full queue and is waiting, while the send loop is
\* running and has already written a command
C15_Witness ==
  /\ Len(commands) = QueueMaxsize
  /\ \E c \in Callers : cpc[c] = "put"
  /\ sendPc = "loop" /\ live /\ wire # <<>>

C17_GetFrame ==
  /\ [][(got' # got /\ got'.resp = None) =>
          /\ got'.req \notin DOMAIN responses
          /\ responses' = responses
          /\ commands' = commands]_vars
  /\ [][fetched' # fetched =>
          /\ got'.req \in DOMAIN responses
          /\ got'.resp = responses[got'.req]
          /\ DOMAIN responses' = DOMAIN responses \ {got'.req}
          /\ \A k \in DOMAIN responses' : responses'[k] = responses[k]
          /\ commands' = commands]_vars

\* a non-blocking getResponse has just returned None for an id that is absent,
\* after an earlier getResponse took one response out and left another in the map
C17_Witness ==
  /\ got.resp = None /\ got.req # NoGet.req
  /\ got.req \notin DOMAIN responses
  /\ responses # <<>>
  /\ \E sn \in DOMAIN fetched : fetched[sn] = 1

WithinOneCount(v, x) == v - x < 10 /\ x - v < 10
ResultWrappers ==
  {"botStop", "botPWMDrive", "armSetAngle", "gripperSetAngle", "armPick", "armDrop",
   "compassReset"}

\* C18: a domain wrapper whose response lacks the field it reads does not raise
\* and returns its fallback: False for the result wrappers, the input distance
\* or angle (as the whole number of units the wrapper returns) for the motion
\* wrappers, -1 for the sensor wrappers.
C18_WrapperFallback ==
  (op.name \in WrapperNames /\ out # NoCall) =>
    /\ ~out.raised
    /\ (op.name \in ResultWrappers /\ "result" \notin op.response.has)
         => out.value = FALSE
    /\ (op.name \in {"botMove", "botFollow"} /\ "distance" \notin op.response.has)
         => WithinOneCount(out.value, op.distance)
    /\ (op.name = "botSet" /\ "distance" \notin op.response.has)
         => WithinOneCount(out.value[1], op.distance)
    /\ (op.name = "botSet" /\ "absHeading" \notin op.response.has)
         => WithinOneCount(out.value[2], op.angle)
    /\ (op.name = "botTurnAbs" /\ "absHeading" \notin op.response.has)
         => out.value = op.angle
    /\ (op.name = "botTurnRel" /\ "headingErr" \notin op.response.has)
         => out.value = op.angle
    /\ (op.name \in {"getSensorData", "getSensorDataByName"}
          /\ "data" \notin op.response.has)
         => out.value = -10

\* move() has returned at least once and no move() is in progress
Moved == movePc.moved /\ movePc.i = 0

\* C19: after move(dtheta, d), for every turn, distance and noise draw, each
\* particle's heading theta lies in [0, 2*pi).
C19_ThetaNormalized ==
  Moved => \A i \in 1..NumParticles :
             particles.theta[i] >= 0 /\ particles.theta[i] < TwoPi

\* C20: after move(dtheta, d), for every turn, distance and noise draw, each
\* particle's position satisfies 0 <= x <= map width and 0 <= y <= map height.
C20_PositionInMap ==
  Moved => \A i \in 1..NumParticles :
             /\ particles.x[i] >= 0 /\ particles.x[i] <= XDim
             /\ particles.y[i] >= 0 /\ particles.y[i] <= YDim

\* a move has returned in which the loop had carried one particle beyond the far
\* edge of the map and one below zero, and every particle is inside the map now
C20_Witness ==
  /\ Moved /\ movePc.clipped
  /\ \E i \in 1..NumParticles : particles.x[i] = XDim \/ particles.y[i] = YDim
  /\ \E i \in 1..NumParticles : particles.x[i] = 0 \/ particles.y[i] = 0

\* the pose of particle i of a particle set
Pose(p, i) == <<p.x[i], p.y[i], p.theta[i]>>
Sized(p) == Len(p.x) = NumParticles /\ Len(p.y) = NumParticles /\ Len(p.theta) = NumParticles

\* C21: after any sequence of move and resample operations the arrays x, y and
\* theta each have length N, and every particle after a resample is a copy of
\* the pose (x, y and theta together) of a particle that existed before it.
C21_SizeAndCopies ==
  [][/\ Sized(particles')
     /\ (resPc.pc = "replace") =>
          \A k \in 1..NumParticles : \E j \in 1..NumParticles :
             Pose(particles', k) = Pose(particles, j)]_vars

\* after a move, a resample is about to replace the set by two copies of one of
\* two particles that differ
C21_Witness ==
  /\ resPc.pc = "replace" /\ movePc.moved
  /\ resPc.new[1][1] = resPc.new[2][1]
  /\ Pose(particles, 1) # Pose(particles, 2)
  /\ \E i \in 1..NumParticles : particles.theta[i] = TwoPi

\* particle h has weight 1 and every other particle has weight 0
OneHot(w, h) == w[h] = WeightOne /\ \A i \in 1..NumParticles : i # h => w[i] = 0
\* the pose held by entry k of the list new
NewPose(k) == <<resPc.new[k][2], resPc.new[k][3], resPc.new[k][4]>>

\* C22: when one particle has weight 1 and all others weight 0, the resampler
\* emits N copies of that particle, for every start index and every sequence of
\* random draws in [0, 1), a draw of exactly 0 included.
C22_OneHotCopies ==
  \A h \in 1..NumParticles :
     (resPc.pc = "replace" /\ OneHot(particles.prob, h)) =>
        \A k \in 1..NumParticles : NewPose(k) = Pose(particles, h)

\* every particle has the same weight, and it is positive
UniformWeights(w) == w[1] > 0 /\ \A i \in 1..NumParticles : w[i] = w[1]

\* C23: when all particles have the same positive weight the output of the
\* resampler is a permutation of its input: every input particle appears
\* exactly once, for every start index and every sequence of random draws.
C23_UniformPermutation ==
  (resPc.pc = "replace" /\ UniformWeights(particles.prob)) =>
     \A j \in 1..NumParticles :
        Cardinality({k \in 1..NumParticles : resPc.new[k][1] = j}) = 1

AllZero(w) == \A i \in 1..NumParticles : w[i] = 0

\* C24: when every weight is zero, resampling completes and each of the N
\* outputs is drawn uniformly at random from the current particle set,
\* independently of the others: in every round after the first, whichever
\* particle was emitted before, each particle can be the next one emitted.
C24_ZeroWeightsIndependent ==
  (resPc.pc = "while" /\ resPc.i >= 2 /\ AllZero(particles.prob)) =>
     \A j \in 1..NumParticles :
        ENABLED (ResampleNext /\ Len(resPc'.new) = resPc.i /\ resPc'.new[resPc.i][1] = j)

\* C25: immediately after construction and immediately after every resample
\* all N weights equal 1/N (and so each belongs to the particle at its index).
C25_WeightsReset ==
  (resPc.pc = "idle" /\ particles # NoParticles) =>
     \A i \in 1..NumParticles : particles.prob[i] = OneOverN

RECURSIVE SumTo(_, _)
\* the sum of the first n elements of an array
SumTo(s, n) == IF n = 0 THEN 0 ELSE s[n] + SumTo(s, n - 1)

\* C26: the wheel terminates for every vector of N non-negative finite weights,
\* every start index and every sequence of draws: in each of the N rounds the
\* inner loop that advances the pointer while beta exceeds the current weight
\* is left after finitely many iterations, and the resample returns.
C26_WheelTerminates ==
  /\ (resPc.pc = "while") ~> (resPc.pc # "while")
  /\ (resPc.pc # "idle") ~> (resPc.pc = "idle")

\* the inner loop runs with a beta above the sum of all weights, so the pointer
\* has to pass every particle, one of weight zero among them
C26_Witness ==
  /\ resPc.pc = "while"
  /\ BetaExceeds(resPc.beta, SumTo(particles.prob, NumParticles))
  /\ \E i \in 1..NumParticles : particles.prob[i] = 0

\* C27: the localizer loop takes the queued messages one at a time in the order
\* of their puts; it writes to the bot-location record only for a motion message
\* and only after move, update and guess have been called for it, in that order,
\* and then leaves the guessed x, y, theta and dirty = false; a 'die' message
\* makes it exit, after which it takes no message and writes nothing, whatever
\* is still queued.
C27_LocalizerLoop ==
  [][/\ (locPc'.last # locPc.last) => (locPc'.last = locPc.last + 1)
     /\ (locPc'.msg.kind = "die") => (locPc'.pc = "exited")
     /\ (locPc.pc \in {"x", "y", "theta", "dirty"} /\ locPc' # locPc) =>
          /\ locPc.msg.kind = "motion"
          /\ locPc.calls = <<"move", "update", "guess">>
     /\ (locPc.pc = "x" /\ locPc' # locPc) => (bot_loc'.x = locPc.guess[1])
     /\ (locPc.pc = "y" /\ locPc' # locPc) => (bot_loc'.y = locPc.guess[2])
     /\ (locPc.pc = "theta" /\ locPc' # locPc) => (bot_loc'.theta = locPc.guess[3])
     /\ (locPc.pc = "dirty" /\ locPc' # locPc) => (bot_loc'.dirty = FALSE /\ locPc'.pc = "get")
     /\ (locPc.pc = "exited") =>
          /\ locPc' = locPc
          /\ (bot_loc' # bot_loc \/ writer' # writer) => navPc' # navPc]_vars

\* the localizer has handled one motion message, written the record and then
\* exited on 'die' while another message is still queued
C27_Witness ==
  /\ locPc.pc = "exited" /\ locPc.last = 2
  /\ feed.q # <<>>
  /\ \A k \in {"x", "y", "theta", "dirty"} : writer[k] = "localizer"
  /\ <<bot_loc.x, bot_loc.y, bot_loc.theta>> \in GuessSample /\ bot_loc.dirty = FALSE

\* C28: every motion message the navigator puts on the feed queue carries the
\* fields dTheta, dXY, sensorData and timestamp, so the localizer never fails on
\* a navigator message because a field is missing.
C28_NavMessagesComplete ==
  /\ \A i \in 1..Len(feed.q) :
        feed.q[i].by = "navigator" =>
           {"dTheta", "dXY", "sensorData", "timestamp"} \subseteq feed.q[i].keys
  /\ ~(locPc.pc = "failed" /\ locPc.msg.by = "navigator")

\* C29: after start-up only the localizer writes the x, y and theta fields of
\* the bot-location record; the navigator only reads them.
C29_SingleWriter ==
  \A k \in {"x", "y", "theta"} : writer[k] \in {"init", "localizer"}

\* C30: in the binary occupancy map built from a descriptor grid a cell is a
\* wall (1) if and only if its descriptor is 8, every other descriptor 0..9
\* gives free (0), and the binary grid has as many rows and columns as the
\* descriptor grid.
C30_WallIffEight ==
  (out.name = "Map.update") =>
     /\ Len(out.data) = Len(op.grid)
     /\ \A r \in 1..Len(op.grid) :
          /\ Len(out.data[r]) = Len(op.grid[r])
          /\ \A c \in 1..Len(op.grid[r]) :
               /\ out.data[r][c] \in {0, 1}
               /\ (out.data[r][c] = 1) <=> (op.grid[r][c] = 8)

\* the map of a grid of two rows that holds a wall next to a cell of descriptor 9
C30_Witness ==
  /\ out.name = "Map.update"
  /\ Len(op.grid) = 2
  /\ \E r \in 1..2 : \E c \in 1..(Len(op.grid[r]) - 1) :
       /\ op.grid[r][c] = 8 /\ op.grid[r][c + 1] = 9
       /\ out.data[r][c] = 1 /\ out.data[r][c + 1] = 0

\* one wire unit, in the navigator's unit
OneWireUnit == distFromCommUC(10)
Abs(x) == IF x >= 0 THEN x ELSE -x
\* the response has no distance field, or the field repeats the commanded value
Echoed == "distance" \in op.response.has => op.response.distance = distToCommUC(op.distance)

\* C31: converting a distance to the wire unit, passing it through the move
\* wrapper and converting back changes it by at most one wire unit, whether
\* the wrapper returns the echoed or a reported distance.
C31_RoundTrip ==
  (out.name = "navMove") => Abs(out.value - op.distance) <= OneWireUnit

\* C31, amended: when the response has no distance field or repeats the
\* commanded distance, the round trip changes the distance by less than one
\* wire unit, and never away from zero.
C31_RoundTripEchoed ==
  (out.name = "navMove" /\ Echoed) =>
     /\ Abs(out.value - op.distance) < OneWireUnit
     /\ Abs(out.value) <= Abs(op.distance)

\* a distance that is not a whole number of wire units has gone through the
\* wrapper, echoed by the board, and has come back shorter
C31_Witness ==
  /\ out.name = "navMove" /\ Echoed /\ "distance" \in op.response.has
  /\ out.value # op.distance
  /\ op.distance < 0

\* run() has returned
Terminated == runPc = "finished"

\* C32: after the multiplexer has terminated no entry is added to the response
\* map again, so a blocking get that is waiting then, for a command dropped at
\* shutdown or never answered, stays in its wait loop for ever.
C32_NoStoreAfterEnd ==
  [][Terminated =>
       /\ responses' = responses
       /\ \A c \in Callers : cpc[c] = "spin" => cpc'[c] = "spin"]_vars

\* the multiplexer has terminated with the response map empty while a caller
\* waits for the response to a command that never reached the port
C32_Witness ==
  /\ Terminated
  /\ DOMAIN responses = {}
  /\ \E c \in Callers :
       /\ cpc[c] = "spin"
       /\ \A i \in 1..Len(wire) : wire[i].caller # c

\* C33: a blocking get(id) whose wait loop has seen id in the response map
\* always obtains the entry: under every interleaving with other callers' gets
\* and with the multiplexer's cleanup the entry is still there when get pops it.
C33_SeenEntryStays ==
  \A c \in Callers : (cpc[c] = "pop" /\ crun[c]) => DictHas(responses, cid[c])

\* the send loop or the exec loop takes the head of the queue
LoopDequeues ==
  /\ runPc = "loops" /\ runPc' = runPc /\ live
  /\ commands # <<>> /\ commands' = QueueGet(commands).rest
  /\ (sendPc = "loop" \/ execPc = "loop")

\* C34: the send loop and the exec loop treat every dequeued record whose payload
\* is "quit" as the shutdown sentinel whatever its id is: the record is not
\* written to the port (nor handed to the fake send), no response is stored for
\* it, shutdown is signalled and the loop exits.
C34_QuitIsSentinel ==
  [][(LoopDequeues /\ QueueGet(commands).item.command = "quit") =>
        /\ wire' = wire /\ fwPending' = fwPending /\ fake_id' = fake_id
        /\ \A i \in 1..Len(wire') : wire'[i].command # "quit"
        /\ responses' = responses /\ nStored' = nStored
        /\ ~live'
        /\ IF cfg.sequential THEN execPc' = "done" ELSE sendPc' = "done"]_vars

\* a loop has taken a sentinel that a facade enqueued under a random id: live is
\* cleared although the multiplexer's own quit() was never called
C34_Witness ==
  /\ runPc = "loops" /\ ~live /\ nQuit = 0
  /\ (sendPc = "done" \/ execPc = "done")

\* the response stored as number sn is no longer in the map and was never fetched
Replaced(sn) ==
  /\ sn \in 1..nStored
  /\ fetched[sn] = 0
  /\ \A k \in DOMAIN responses : responses[k].sn # sn

\* C35: the response map holds one response per id: a response stored under an
\* id that has an unfetched entry (id-less responses under -1, or colliding ids)
\* takes the place of the earlier entry and leaves every other entry alone, and
\* a response that was replaced is never returned by any get.
C35_ReplacedIsLost ==
  /\ [][nStored' > nStored =>
          \E key \in DOMAIN responses' :
             /\ responses'[key].sn = nStored'
             /\ DOMAIN responses' = DOMAIN responses \cup {key}
             /\ \A k \in DOMAIN responses \ {key} : responses'[k] = responses[k]]_vars
  /\ [][\A sn \in DOMAIN fetched :
          Replaced(sn) => (fetched'[sn] = 0 /\ got'.resp.sn # sn)]_vars

\* a response was replaced before any get fetched it, and a later get has
\* returned the response that took its place
C35_Witness ==
  \E sn \in DOMAIN fetched :
     Replaced(sn) /\ got.resp.sn > sn /\ fetched[got.resp.sn] = 1

\* the values single writes put into a field of the bot-location record: the
\* start-up value, a component of a guess, a converted component of a step
WholeValues(k) ==
  CASE k = "x" -> {-1} \cup {g[1] : g \in GuessSample}
                       \cup {XYTobot_locUC(st.cont_x) : st \in SolSteps}
    [] k = "y" -> {-1} \cup {g[2] : g \in GuessSample}
                       \cup {XYTobot_locUC(st.cont_y) : st \in SolSteps}
    [] k = "theta" -> {0} \cup {g[3] : g \in GuessSample}
                          \cup {thetaTobot_locUC(st.cont_theta) : st \in SolSteps}
    [] k = "dirty" -> BOOLEAN

\* C36: the localizer writes the bot-location record one field at a time in the
\* order x, y, theta, dirty: each of its writes changes one field and leaves the
\* three others as they were, so between two writes the record holds x of the
\* new estimate with y or theta of an earlier one; every field of the record is
\* at all times a value put there whole by one write.
C36_FieldByField ==
  /\ [][(locPc.pc \in {"x", "y", "theta", "dirty"} /\ locPc' # locPc) =>
          /\ \A k \in DOMAIN bot_loc : k # locPc.pc => bot_loc'[k] = bot_loc[k]
          /\ writer'[locPc.pc] = "localizer"
          /\ locPc'.pc = CASE locPc.pc = "x" -> "y"
                           [] locPc.pc = "y" -> "theta"
                           [] locPc.pc = "theta" -> "dirty"
                           [] locPc.pc = "dirty" -> "get"]_vars
  /\ [](\A k \in DOMAIN bot_loc : bot_loc[k] \in WholeValues(k))

\* the localizer has written x of its second estimate while theta still is the
\* one of its first estimate
C36_Witness ==
  /\ locPc.pc \in {"y", "theta"} /\ locPc.last = 2
  /\ \A k \in {"x", "y", "theta"} : writer[k] = "localizer"
  /\ bot_loc.x = locPc.guess[1]
  /\ bot_loc.theta # locPc.guess[3]

\* C37: for every pair of consecutive solution steps on which XYxorTheta
\* returns True, whichXYTheta returns "xy" or "theta" and never ERROR_NO_CHANGE:
\* "theta" exactly when the continuous heading differs and "xy" exactly when the
\* continuous x or y differs.
C37_WhichFollowsXor ==
  (out.name = "stepKind" /\ out.xor = "True") =>
     /\ out.which \in {"xy", "theta"}
     /\ out.which = "theta" <=> op.step_prev.cont_theta # op.step_cur.cont_theta
     /\ out.which = "xy" <=> (\/ op.step_prev.cont_x # op.step_cur.cont_x
                              \/ op.step_prev.cont_y # op.step_cur.cont_y)

\* the navigator wrote x, y and theta last: no other process has written the
\* record since communicateSol's own writes
OwnPoseUnchanged == \A k \in {"x", "y", "theta"} : writer[k] = "navigator"

TfQuitQueued == \E i \in 1..Len(commands) : commands[i].command = "quit"

\* C39: in the track follower at most one MOVE thread exists at any time:
\* traverse starts one thread and returns only after that thread has finished;
\* run goes to the next edge only after traverse of the current edge returned
\* True; an edge whose traversal was interrupted for a pickup is traversed
\* again; quit is enqueued only after the last edge, the final turn and the
\* final stop.
C39_OneMoveThread ==
  /\ [](tf.pc # "none" => MoveThreads \in {0, 1})
  /\ [][(tf.pc = "run" /\ tf'.pc # "run") =>
          (MoveThreads = 0 /\ tf'.started = tf.started + 1)]_vars
  /\ [][(tf.pc = "join" /\ tf'.pc # "join") => MoveThreads = 0]_vars
  /\ [][(tf.pc # "none" /\ tf'.edge # tf.edge) =>
          /\ tf.pc = "join" /\ tf.traversalComplete
          /\ tf'.edge = tf.edge + 1 /\ tf'.pc = "run"]_vars
  /\ [][(tf.pc = "join" /\ tf'.pc # "join" /\ ~tf.traversalComplete) =>
          (tf'.pc = "run" /\ tf'.edge = tf.edge)]_vars
  /\ [](TfQuitQueued =>
          /\ tf.edge = Len(tf.path) /\ tf.traversalComplete
          /\ tf.finalTurn /\ tf.finalStop)

\* a two-edge path was finished and quit enqueued after an edge had been
\* interrupted for a pickup and traversed again
C39_Witness ==
  /\ tf.pc = "done" /\ TfQuitQueued
  /\ Len(tf.path) = 2 /\ tf.pickups >= 1
  /\ tf.started > Len(tf.path) /\ MoveThreads = 0

\* C40: the sensor-reading harness issues at most n (max. reads) sensors
\* commands, and once a termination signal has been handled it issues no
\* further sensors command, leaves its read loop and enqueues quit.
C40_StopsOnSignal ==
  /\ reader.pc # "none" => reader.sensors <= reader.maxReads
  /\ reader.pc # "none" => reader.late = 0
  /\ reader.pc = "done" => \E i \in 1..Len(commands) : commands[i].command = "quit"

====
